---- MODULE Spec2Model ----
(***************************************************************************)
(* leah_sign: four LED channels on an ATtiny85 (src/leah_sign.c, the       *)
(* revision at lines 484-1507).  The module models the foreground control  *)
(* thread (the twelve sequences, delay_millis_check_button and             *)
(* check_button_input), the timer-0 time base, the button line and the     *)
(* emulated PWM channel driven by the two timer-1 interrupts.              *)
(*                                                                         *)
(* Time.  The unit of time is one timer-0 overflow period ("tick", the     *)
(* 0.25 ms the code assumes at line 607).  Time passes only where the      *)
(* foreground busy-waits: _delay_ms(n) lasts n ms and an ADC conversion    *)
(* lasts ADC_OVF ticks.  TIMER0_OVF_vect runs once per tick of such a      *)
(* wait; in QuietSpec the action TIMER0_OVF lets the handler run at any    *)
(* point between two foreground steps as well, up to MaxExtraOvf times.    *)
(***************************************************************************)
EXTENDS Integers, Sequences, FiniteSets, TLC

VARIABLES
    seqno,                  \* which of seq1..seq12 the foreground runs
    timeout,                \* its argument
    main,                   \* main(): position, locals, the caller of the sequence
    pc,                     \* position in the sequence
    ph,                     \* index of the current animation phase
    j,                      \* loop variable of the current for loop
    led,                    \* led1..led4 (seq1, seq2), brightness[] (seq10, seq11)
    direction,              \* direction[] (seq10, seq11)
    reg,                    \* OCR0A, OCR0B, OCR1B, OCR1A
    start_time,             \* the sequence's start_time
    ret,                    \* the sequence's return value, -1 while it runs
    d_start,                \* delay_millis_check_button: start_time
    d_pressed,              \* delay_millis_check_button: button_pressed
    cbi,                    \* position inside check_button_input
    blink_i,                \* check_button_input: i of the blink loop
    millis,                 \* the millisecond counter
    timer_interrupt_ticks,  \* the tick counter
    low_ticks,              \* ticks the button line stays below threshold
    press_used,             \* the line has dropped once in this run
    extra_ovf,              \* TIMER0_OVF steps taken outside busy-waits
    settings_start_seq,     \* the settings byte in RAM
    settings_start_seq_ee,  \* the settings byte in EEPROM
    wdt,                    \* watchdog armed
    mic_buffer,             \* ring buffer
    mic_buffer_current,     \* its write index
    leds,                   \* seq12: leds
    led_time,               \* seq12: led_time
    inputs,                 \* random draws and microphone samples taken
    TCNT1,                  \* timer-1 counter
    PB3,                    \* the emulated channel's output pin
    TOV1,                   \* timer-1 overflow interrupt pending
    OCF1A,                  \* timer-1 compare match A interrupt pending
    rd,                     \* a foreground read of millis, byte by byte
    obs                     \* observations kept for the properties

vars == <<seqno, timeout, main, pc, ph, j, led, direction, reg, start_time, ret,
          d_start, d_pressed, cbi, blink_i, millis, timer_interrupt_ticks,
          low_ticks, press_used, extra_ovf, settings_start_seq,
          settings_start_seq_ee, wdt, mic_buffer, mic_buffer_current, leds,
          led_time, inputs, TCNT1, PB3, TOV1, OCF1A, rd, obs>>

----------------------------------------------------------------------------
(* Program constants *)

BUTTON_THRESHOLD == 1000
DEBOUNCE_MS == 300
HOLD_MS == 3000
BLINK_CYCLES == 10
BLINK_MS == 50
SAVE_DELAY_MS == 2000
TICK_LIMIT == 4
DEAD_ZONE == 4
MIC_BUFFER_SIZE == 16
MIC_MIDSCALE == 512
NUM_SEQ == 11
OVF_PER_MS == 4

(* Bounds of the model *)

MaxMillis == 3600       \* the time base stops here
ADC_OVF == 6            \* ticks per ADC conversion
MaxExtraOvf == 1        \* TIMER0_OVF steps outside busy-waits
MaxInputs == 2          \* random draws / microphone samples that vary
MaxTimeout == 1         \* largest bounded timeout
LongPressWindow == 100  \* a long press begins before millis reaches this
MaxPeriods == 2         \* timer-1 periods counted
MaxOvf == 12            \* timer-0 overflows with the foreground idle

Timeouts == {-1} \cup (0 .. MaxTimeout)
Seqs == 1 .. 12

\* the line reads just below the threshold while pressed, at it otherwise
PRESSED_ADC == BUTTON_THRESHOLD - 1
RELEASED_ADC == BUTTON_THRESHOLD
\* lengths of a press, in ms: a dip, a hold, a long press
PressLengths == {250, 1000, 5000}

Min(a, b) == IF a < b THEN a ELSE b
Max(a, b) == IF a > b THEN a ELSE b
U8(x) == x % 256
MsTicks(ms) == ms * OVF_PER_MS

Regs == {"OCR0A", "OCR0B", "OCR1B", "OCR1A"}
AllRegs(v) == [r \in Regs |-> v]
\* led1..led4 drive OCR0A, OCR0B, OCR1B, OCR1A
RegOfLed == <<"OCR0A", "OCR0B", "OCR1B", "OCR1A">>

----------------------------------------------------------------------------
(* The sequences as lists of animation phases.                             *)
(*   for   : for(j = from; j cmp lim; j += step){ poll; write; delay }     *)
(*   while : while(led[from] cmp lim){ poll; write; delay }                *)
(*   poll  : poll; write                                                   *)
(*   wr    : write                                                         *)
(*   dmcb  : if(delay_millis_check_button(d)) return 1                     *)
(*   walk  : one iteration of seq10 / seq11                                *)
(*   sound : one iteration of seq12                                        *)

Ph(k, from, cmp, lim, step, w, dn, up, d) ==
    [k |-> k, from |-> from, cmp |-> cmp, lim |-> lim, step |-> step,
     w |-> w, dn |-> dn, up |-> up, d |-> d]

For(from, cmp, lim, step, w, d) == Ph("for", from, cmp, lim, step, w, "", "", d)
Chase(cmp, dn, up) == Ph("for", 0, cmp, 200, 2, "chase", dn, up, 0)
While(ch, cmp, lim, w, d) == Ph("while", ch, cmp, lim, 0, w, "", "", d)
PollSet(r, v) == Ph("poll", 0, "", v, 0, "set", "", r, 0)
Set(r, v) == Ph("wr", 0, "", v, 0, "set", "", r, 0)
SetAll(v) == Ph("wr", 0, "", v, 0, "all_set", "", "", 0)
Dmcb(d) == Ph("dmcb", 0, "", 0, 0, "none", "", "", d)

Flash(r) ==
    << PollSet(r, 255), Dmcb(50), Set(r, 0), Dmcb(50), Set(r, 255), Dmcb(50),
       Set(r, 0), Dmcb(50), Set(r, 255) >>

seq1 ==
    << While(1, "<", 255, "led_inc", 1), While(2, "<", 255, "led_inc", 1),
       While(3, "<", 255, "led_inc", 1), While(4, "<", 255, "led_inc", 1),
       While(1, ">", 0, "led_dec", 1), While(2, ">", 0, "led_dec", 1),
       While(3, ">", 0, "led_dec", 1), While(4, ">", 0, "led_dec", 1) >>

seq2 ==
    << While(1, "<", 255, "led_inc", 2), While(2, "<", 255, "led_inc", 2),
       While(3, "<", 255, "led_inc", 2), While(4, "<", 255, "led_inc", 2),
       For(255, ">", 0, -1, "leds_dec", 4) >>

seq3 ==
    Flash("OCR0A") \o << Dmcb(100) >> \o
    Flash("OCR0B") \o << Dmcb(100) >> \o
    Flash("OCR1B") \o << Dmcb(100) >> \o
    Flash("OCR1A") \o << Dmcb(500) >> \o
    << For(255, ">", 0, -1, "all_j", 1), SetAll(0), Dmcb(500) >>

seq4 ==
    << For(0, "<", 255, 1, "all_j", 1), For(255, ">=", 0, -1, "all_j", 1),
       Dmcb(100) >>

seq5 ==
    << For(0, "<", 255, 4, "all_j", 1), For(255, ">=", 0, -4, "all_j", 1),
       Dmcb(30) >>

ChaseUp ==
    << Chase("<", "", "OCR0A"), Chase("<=", "OCR0A", "OCR0B"),
       Chase("<=", "OCR0B", "OCR1B"), Chase("<=", "OCR1B", "OCR1A"),
       Chase("<=", "OCR1A", ""), Dmcb(100) >>

ChaseDown ==
    << Chase("<", "", "OCR1A"), Chase("<=", "OCR1A", "OCR1B"),
       Chase("<=", "OCR1B", "OCR0B"), Chase("<=", "OCR0B", "OCR0A"),
       Chase("<=", "OCR0A", ""), Dmcb(100) >>

seq6 == ChaseUp

seq7 == ChaseUp \o ChaseDown

Hold(n, d) == For(0, "<", n, 1, "none", d)
Dec(n, d) == For(0, "<", n, 1, "all_dec", d)
Inc(n, d) == For(0, "<", n, 1, "all_inc", d)

seq8 ==
    << For(0, "<", 60, 1, "all_j", 2),
       Hold(100, 5), Dec(60, 3), Inc(60, 4), Hold(100, 10), Inc(40, 2),
       Dec(40, 2), Dec(30, 5), Hold(100, 20), Inc(30, 5), Hold(100, 30),
       Inc(40, 2), Hold(100, 20), Dec(40, 2) >>

seq9 ==
    << For(0, "<", 100, 1, "all_inc2", 0), Hold(8, 1), Dec(200, 35),
       Hold(100, 10) >>

seq10 == << Ph("walk", 0, "", 50, 1, "walk", "", "", 0) >>

seq11 == << Ph("walk", 255, "", 100, -1, "walk", "", "", 0) >>

seq12 == << Ph("sound", 0, "", 0, 0, "sound", "", "", 0) >>

seq == << seq1, seq2, seq3, seq4, seq5, seq6, seq7, seq8, seq9, seq10,
          seq11, seq12 >>

\* the phase at which the timed while loop begins (seq8 ramps up before it)
LoopStart(s) == IF s = 8 THEN 2 ELSE 1
StartValue_zero(s) == 0

\* the value written to the four channels on entry
StartValue(s) == IF s = 11 THEN 255 ELSE 0

----------------------------------------------------------------------------
(* Helpers *)

Cmp(c, x, y) ==
    CASE c = "<" -> x < y
      [] c = "<=" -> x <= y
      [] c = ">" -> x > y
      [] c = ">=" -> x >= y
      [] OTHER -> FALSE

IsLoop(P) == P.k \in {"for", "while"}

\* the loop condition of phase P, with loop variable jv and locals ledv
Holds(P, jv, ledv) ==
    IF P.k = "while" THEN Cmp(P.cmp, ledv[P.from], P.lim)
    ELSE Cmp(P.cmp, jv, P.lim)

\* the first phase from p on whose body runs; 0: back to the timed loop test
RECURSIVE Target(_, _, _)
Target(s, p, ledv) ==
    IF p > Len(seq[s]) THEN 0
    ELSE LET P == seq[s][p] IN
         IF IsLoop(P) /\ ~Holds(P, P.from, ledv)
         THEN (IF p + 1 = LoopStart(s) THEN 0 ELSE Target(s, p + 1, ledv))
         ELSE p

AfterPhase(s, p, ledv) ==
    IF p + 1 = LoopStart(s) THEN 0 ELSE Target(s, p + 1, ledv)

\* mutant: the first iteration of a loop skips its poll
EntryPc_nopoll(k) ==
    CASE k = "wr" -> "write"
      [] k = "dmcb" -> "dmcb"
      [] k = "sound" -> "body"
      [] k = "for" -> "body"
      [] OTHER -> "poll"

EntryPc(k) ==
    CASE k = "wr" -> "write"
      [] k = "dmcb" -> "dmcb"
      [] k = "sound" -> "body"
      [] OTHER -> "poll"

\* the effect of one loop body on the channel registers and the locals
ApplyW(P, jv, r, ledv) ==
    CASE P.w = "none" -> [reg |-> r, led |-> ledv]
      [] P.w = "led_inc" ->
            LET v == U8(ledv[P.from] + 1) IN
            [reg |-> [r EXCEPT ![RegOfLed[P.from]] = v],
             led |-> [ledv EXCEPT ![P.from] = v]]
      [] P.w = "led_dec" ->
            LET v == U8(ledv[P.from] - 1) IN
            [reg |-> [r EXCEPT ![RegOfLed[P.from]] = v],
             led |-> [ledv EXCEPT ![P.from] = v]]
      [] P.w = "leds_dec" ->
            LET l2 == [c \in 1 .. 4 |-> U8(ledv[c] - 1)] IN
            [reg |-> [x \in Regs |->
                        CASE x = "OCR0A" -> l2[1] [] x = "OCR0B" -> l2[2]
                          [] x = "OCR1B" -> l2[3] [] OTHER -> l2[4]],
             led |-> l2]
      [] P.w = "all_j" -> [reg |-> AllRegs(U8(jv)), led |-> ledv]
      [] P.w = "all_set" -> [reg |-> AllRegs(U8(P.lim)), led |-> ledv]
      [] P.w = "set" -> [reg |-> [r EXCEPT ![P.up] = U8(P.lim)], led |-> ledv]
      [] P.w = "chase" ->
            [reg |-> [x \in Regs |->
                        IF x = P.dn THEN U8(200 - jv)
                        ELSE IF x = P.up THEN U8(jv) ELSE r[x]],
             led |-> ledv]
      [] P.w = "all_inc" -> [reg |-> [x \in Regs |-> U8(r[x] + 1)], led |-> ledv]
      [] P.w = "all_dec" -> [reg |-> [x \in Regs |-> U8(r[x] - 1)], led |-> ledv]
      [] P.w = "all_inc2" -> [reg |-> [x \in Regs |-> U8(r[x] + 2)], led |-> ledv]
      [] OTHER -> [reg |-> r, led |-> ledv]

----------------------------------------------------------------------------
(* Time base *)

\* mutant: >= for >
Timer0Ovf_ge(t, m) ==
    LET t1 == (t + 1) % 65536 IN
    IF t1 >= TICK_LIMIT THEN [t |-> 0, m |-> m + 1] ELSE [t |-> t1, m |-> m]

\* ISR(TIMER0_OVF_vect), once
Timer0Ovf(t, m) ==
    LET t1 == (t + 1) % 65536 IN
    IF t1 > TICK_LIMIT THEN [t |-> 0, m |-> m + 1] ELSE [t |-> t1, m |-> m]

\* mutant: millis is one byte wide
Overflows_wrap8(k, t, m) ==
    LET total == t + k
        m2 == (m + (total \div (TICK_LIMIT + 1))) % 256
    IN  IF m >= MaxMillis THEN [t |-> t, m |-> m]
        ELSE [t |-> total % (TICK_LIMIT + 1), m |-> m2]

\* ISR(TIMER0_OVF_vect), k times in a row; the time base stops at MaxMillis
Overflows(k, t, m) ==
    LET total == t + k
        m2 == m + (total \div (TICK_LIMIT + 1))
    IN  IF m >= MaxMillis THEN [t |-> t, m |-> m]
        ELSE IF m2 >= MaxMillis THEN [t |-> 0, m |-> MaxMillis]
        ELSE [t |-> total % (TICK_LIMIT + 1), m |-> m2]

\* byte i of the 64-bit counter; the time base of the model stays below
\* 2^24, so the bytes from 3 up are 0
Byte(v, i) == IF i > 2 THEN 0 ELSE (v \div (256 ^ i)) % 256
Weight(i) == IF i > 2 THEN 0 ELSE 256 ^ i

\* no read of millis in progress
Rd0 == [i |-> 8, val |-> 0, lo |-> 0, up |-> TRUE]

\* adc_read(0), sampled when the conversion starts, and the reading that
\* adc_read(0) gives k ticks from now
ButtonAdcIn(k) == IF low_ticks > k THEN PRESSED_ADC ELSE RELEASED_ADC
ButtonAdc == ButtonAdcIn(0)

\* mutant: <= for <
IsPressed_le(x) == x <= BUTTON_THRESHOLD

\* if (adc_read(0) < 1000)
IsPressed(x) == x < BUTTON_THRESHOLD

\* get_mic_buffer_mad
RECURSIVE SumBuf(_, _)
SumBuf(b, n) == IF n = 0 THEN 0 ELSE (SumBuf(b, n - 1) + b[n]) % 65536
\* mutant: the 16-bit difference is not read as a signed int
Abs16_unsigned(x) == x % 65536

\* abs() of a 16-bit unsigned difference, read as a 16-bit int
Abs16(x) ==
    LET u == x % 65536
        sx == IF u >= 32768 THEN u - 65536 ELSE u
    IN  IF sx < 0 THEN -sx ELSE sx
RECURSIVE SumDev(_, _, _)
SumDev(b, mean, n) ==
    IF n = 0 THEN 0
    ELSE (SumDev(b, mean, n - 1) + Abs16(b[n] - mean)) % 65536
\* mutant: total is kept in 12 bits
get_mic_buffer_mad_u12(b) ==
    LET total == SumBuf(b, MIC_BUFFER_SIZE) % 4096
        mean == total \div MIC_BUFFER_SIZE
    IN  SumDev(b, mean, MIC_BUFFER_SIZE) \div MIC_BUFFER_SIZE

get_mic_buffer_mad(b) ==
    LET total == SumBuf(b, MIC_BUFFER_SIZE)
        mean == total \div MIC_BUFFER_SIZE
    IN  SumDev(b, mean, MIC_BUFFER_SIZE) \div MIC_BUFFER_SIZE

\* mutant: the subtraction is not guarded
NoiseFloor_unguarded(mic) == (mic - 40) % 65536

\* seq12: if(mic > 40){ mic = mic - 40; } else { mic = 0; }  (uint16_t)
NoiseFloor(mic) == IF mic > 40 THEN (mic - 40) % 65536 ELSE 0

\* mutant: no clamp before the shift
MicLevel_noclamp(mic) == U8((NoiseFloor(mic) * 4) % 65536)

\* seq12: if(mic > 63) mic = 63; mic = mic<<2; leds = (uint8_t)mic;
MicLevel(mic) ==
    LET m1 == NoiseFloor(mic)
        m2 == IF m1 > 63 THEN 63 ELSE m1
    IN  U8((m2 * 4) % 65536)

\* init_mic_buffer
InitMicBuffer == [n \in 1 .. MIC_BUFFER_SIZE |-> MIC_MIDSCALE]

----------------------------------------------------------------------------
(* Observations *)

SinceCap == 2 * MsTicks(DEBOUNCE_MS + HOLD_MS)

Obs0 ==
    [any_pressed |-> FALSE,  \* a poll of this run has reported pressed
     since_drop |-> -1,      \* ticks since the line dropped, -1: it has not
     sampled |-> FALSE,      \* a poll has sampled the line below threshold
     dly_unsampled |-> 0,    \* fixed delays run since the drop, until sampled
     dly |-> 0,              \* fixed delays run since the last poll
     upd_after_dly |-> FALSE,\* a register update followed one of them
     steps_past |-> 0,       \* animation steps begun at or after the deadline
     steps_cycle |-> 0,      \* animation steps since the last loop test
     cycle_millis |-> -1,    \* millis at the loop test that began the cycle
     call |-> 0,             \* parity of the calls of check_button_input
     cbi_samples |-> <<>>,   \* the samples taken by the current call
     cbi_delay |-> 0,        \* ms it has spent in _delay_ms
     cbi_ret |-> -1,         \* its return value, -1 while it runs
     press_len |-> 0,        \* ms the line stays low after its drop
     saved |-> FALSE,        \* save_settings has run
     pwm_periods |-> 0,      \* timer-1 periods completed
     pwm_high |-> 0,         \* counts of the current period with the pin high
     pwm_last |-> 0,         \* ... of the last completed period
     pwm_written |-> FALSE,  \* the foreground has rewritten the duty register
     pwm_ovf |-> 0,          \* timer-1 overflows since that write
     pwm_run |-> 0,          \* counts the pin has stayed high since that write
     ovf |-> 0,              \* runs of the timer-0 handler, foreground idle
     mad |-> -1,             \* the last result of get_mic_buffer_mad, -1: none
     wr_millis |-> 0,        \* seq12: millis at the last write of the registers
     recent |-> <<>>,        \* seq12: the last 16 samples read, newest last
     mic_iters |-> 0,        \* seq12: iterations run, counted up to 17
     reports |-> 0,          \* returns of 1 by check_button_input, up to 2
     loads |-> 0,            \* runs of load_settings since the last start
     calls |-> 0,            \* sequences called since the last start, up to 2
     longs |-> 0,            \* runs of the long-press path
     restarts |-> 0,         \* watchdog restarts
     last_s |-> -1,          \* settings_start_seq at the last save_settings
     demo_seq |-> 0]         \* the demo sequence that has just returned 1

DeadlinePassed == timeout >= 0 /\ millis >= start_time + timeout

OTime(o, k) ==
    [o EXCEPT !.since_drop = IF @ < 0 THEN @ ELSE Min(SinceCap, @ + k)]

\* a call of check_button_input takes its first sample
OPoll(o, first) ==
    [o EXCEPT !.dly = 0, !.upd_after_dly = FALSE,
              !.sampled = @ \/ IsPressed(first),
              !.call = 1 - @, !.cbi_samples = <<first>>, !.cbi_delay = 0,
              !.cbi_ret = IF IsPressed(first) THEN -1 ELSE 0]

\* a register update (upd) followed by a fixed delay of d ms
OStep(o, upd, d) ==
    [o EXCEPT !.upd_after_dly = @ \/ (upd /\ o.dly > 0),
              !.dly = Min(2, @ + (IF d > 0 THEN 1 ELSE 0)),
              !.dly_unsampled =
                  IF low_ticks > 0 /\ ~o.sampled /\ d > 0 THEN Min(2, @ + 1) ELSE @,
              !.steps_cycle = @ + 1,
              !.steps_past = IF DeadlinePassed THEN @ + 1 ELSE @]

----------------------------------------------------------------------------
(* Actions *)

cfgVars == <<seqno, timeout, main>>
hwVars == <<TCNT1, PB3, TOV1, OCF1A, rd>>
setVars == <<settings_start_seq, settings_start_seq_ee, wdt>>
micVars == <<mic_buffer, mic_buffer_current, leds, led_time>>
dmcbVars == <<d_start, d_pressed>>
timeVars == <<millis, timer_interrupt_ticks, low_ticks>>

Running == pc # "done" /\ cbi # "spin"

\* mutant: interrupts are disabled from the third low sample on
Pass_masked(k) ==
    IF cbi \in {"blink_on", "blink_off", "save"}
    THEN /\ UNCHANGED <<millis, timer_interrupt_ticks>>
         /\ low_ticks' = Max(0, low_ticks - k)
    ELSE LET a == Overflows(k, timer_interrupt_ticks, millis) IN
         /\ millis' = a.m
         /\ timer_interrupt_ticks' = a.t
         /\ low_ticks' = Max(0, low_ticks - k)

\* k ticks pass: the handler runs k times, the line comes k ticks nearer
\* to its release
Pass(k) ==
    LET a == Overflows(k, timer_interrupt_ticks, millis) IN
    /\ millis' = a.m
    /\ timer_interrupt_ticks' = a.t
    /\ low_ticks' = Max(0, low_ticks - k)

\* control moves to phase q, or to the loop test when q = 0
Enter(q) ==
    IF q = 0
    THEN pc' = "test" /\ ph' = 0 /\ j' = 0 /\ d_start' = 0 /\ d_pressed' = 0
    ELSE LET P == seq[seqno][q] IN
         /\ pc' = EntryPc(P.k)
         /\ ph' = q
         /\ j' = (IF P.k = "for" THEN P.from ELSE 0)
         /\ d_start' = (IF P.k = "dmcb" THEN millis' ELSE 0)
         /\ d_pressed' = 0

\* the code of a sequence before its first loop
SeqEntry ==
    /\ pc = "entry"
    /\ reg' = AllRegs(StartValue(seqno))
    /\ led' = [c \in 1 .. 4 |-> StartValue(seqno)]
    /\ direction' = [c \in 1 .. 4 |-> 0]
    /\ IF seqno = 12
       THEN /\ mic_buffer' = InitMicBuffer
            /\ mic_buffer_current' = 0
            /\ leds' = 0
            /\ led_time' = millis % 65536
       ELSE UNCHANGED micVars
    /\ start_time' = millis
    /\ UNCHANGED timeVars
    /\ Enter(IF LoopStart(seqno) = 1 THEN 0 ELSE Target(seqno, 1, led'))
    /\ obs' = [obs EXCEPT !.upd_after_dly = @ \/ obs.dly > 0,
                          !.wr_millis = millis]
    /\ UNCHANGED <<cfgVars, hwVars, setVars, ret, cbi, blink_i, press_used,
                   extra_ovf, inputs>>

\* mutant: <= for <
LoopCond_le == (timeout < 0) \/ (millis <= start_time + timeout)

\* mutant: the deadline is taken one millisecond early
LoopCond_early == (timeout < 0) \/ (millis + 1 < start_time + timeout)

\* mutant: the unbounded sentinel is not tested
LoopCond_nosentinel == millis < start_time + timeout

\* while((timeout < 0) || (millis < (start_time + (uint64_t)timeout)))
LoopCond == (timeout < 0) \/ (millis < start_time + timeout)

LoopTest ==
    /\ pc = "test"
    /\ UNCHANGED timeVars
    /\ IF LoopCond
       THEN /\ Enter(Target(seqno, LoopStart(seqno), led))
            /\ ret' = ret
            /\ obs' = [obs EXCEPT !.steps_cycle = 0, !.cycle_millis = millis]
       ELSE /\ pc' = "done"
            /\ ret' = 0
            /\ UNCHANGED <<ph, j, dmcbVars, obs>>
    /\ UNCHANGED <<cfgVars, hwVars, setVars, micVars, led, direction, reg,
                   start_time, cbi, blink_i, press_used, extra_ovf, inputs>>

\* mutant: delay_millis_check_button drops the result of its poll
Return1_dmcb_lost ==
    /\ cbi' = "idle"
    /\ IF pc = "dmcb"
       THEN UNCHANGED <<pc, ret, dmcbVars>>
       ELSE pc' = "done" /\ ret' = 1 /\ UNCHANGED dmcbVars

\* mutant: the sequence's own poll is not followed by return 1
Return1_poll_ignored ==
    /\ cbi' = "idle"
    /\ IF pc = "dmcb"
       THEN d_pressed' = 1 /\ UNCHANGED <<pc, ret, d_start>>
       ELSE pc' = "body" /\ UNCHANGED <<ret, dmcbVars>>

\* check_button_input returns 1 to its caller
Return1 ==
    /\ cbi' = "idle"
    /\ IF pc = "dmcb"
       THEN d_pressed' = 1 /\ UNCHANGED <<pc, ret, d_start>>
       ELSE pc' = "done" /\ ret' = 1 /\ UNCHANGED dmcbVars

\* if(check_button_input()) return 1;  -- up to the first sample
Poll ==
    /\ pc = "poll"
    /\ cbi = "idle"
    /\ LET first == ButtonAdc IN
       /\ Pass(ADC_OVF)
       /\ obs' = OPoll(OTime(obs, ADC_OVF), first)
       /\ IF IsPressed(first)
          THEN cbi' = "debounce" /\ UNCHANGED <<pc, ph, j, dmcbVars>>
          ELSE /\ cbi' = "idle"
               /\ IF seq[seqno][ph].k = "sound"
                  THEN Enter(AfterPhase(seqno, ph, led))
                  ELSE pc' = "body" /\ UNCHANGED <<ph, j, dmcbVars>>
    /\ UNCHANGED <<cfgVars, hwVars, setVars, micVars, led, direction, reg,
                   start_time, ret, blink_i, press_used, extra_ovf, inputs>>

\* the rest of a loop body: the register writes and the fixed delay
Body ==
    /\ pc = "body"
    /\ seq[seqno][ph].k \in {"for", "while", "poll"}
    /\ LET P == seq[seqno][ph]
           W == ApplyW(P, j, reg, led)
           j2 == j + P.step
       IN  /\ reg' = W.reg
           /\ led' = W.led
           /\ Pass(MsTicks(P.d))
           /\ obs' = OStep(OTime(obs, MsTicks(P.d)), P.w # "none", P.d)
           /\ IF IsLoop(P) /\ Holds(P, j2, W.led)
              THEN pc' = "poll" /\ j' = j2 /\ UNCHANGED <<ph, dmcbVars>>
              ELSE Enter(AfterPhase(seqno, ph, W.led))
    /\ UNCHANGED <<cfgVars, hwVars, setVars, micVars, direction, start_time,
                   ret, cbi, blink_i, press_used, extra_ovf, inputs>>

\* register writes outside a loop
Write ==
    /\ pc = "write"
    /\ LET P == seq[seqno][ph]
           W == ApplyW(P, j, reg, led)
       IN  /\ reg' = W.reg
           /\ led' = W.led
           /\ UNCHANGED timeVars
           /\ obs' = OStep(obs, TRUE, 0)
           /\ Enter(AfterPhase(seqno, ph, W.led))
    /\ UNCHANGED <<cfgVars, hwVars, setVars, micVars, direction, start_time,
                   ret, cbi, blink_i, press_used, extra_ovf, inputs>>

\* mutant: the direction is not changed at the rest value
WalkLed_nostop(P, b, dr) ==
    IF P.step > 0
    THEN IF dr > 0 /\ b < 255
         THEN (IF b + 1 >= 255 THEN [b |-> 255, d |-> -1] ELSE [b |-> b + 1, d |-> dr])
         ELSE IF dr < 0
         THEN [b |-> IF b > 0 THEN b - 1 ELSE b, d |-> dr]
         ELSE [b |-> b, d |-> dr]
    ELSE IF dr < 0 /\ b > 0
         THEN (IF b - 1 <= 0 THEN [b |-> 0, d |-> 1] ELSE [b |-> b - 1, d |-> dr])
         ELSE IF dr > 0
         THEN [b |-> IF b < 255 THEN b + 1 ELSE b, d |-> dr]
         ELSE [b |-> b, d |-> dr]

\* seq10, seq11: the update of one led
WalkLed(P, b, dr) ==
    IF P.step > 0
    THEN IF dr > 0 /\ b < 255
         THEN (IF b + 1 >= 255 THEN [b |-> 255, d |-> -1] ELSE [b |-> b + 1, d |-> dr])
         ELSE IF dr < 0
         THEN LET b1 == IF b > 0 THEN b - 1 ELSE b IN
              IF b1 <= 0 THEN [b |-> 0, d |-> 0] ELSE [b |-> b1, d |-> dr]
         ELSE [b |-> b, d |-> dr]
    ELSE IF dr < 0 /\ b > 0
         THEN (IF b - 1 <= 0 THEN [b |-> 0, d |-> 1] ELSE [b |-> b - 1, d |-> dr])
         ELSE IF dr > 0
         THEN LET b1 == IF b < 255 THEN b + 1 ELSE b IN
              IF b1 >= 255 THEN [b |-> 255, d |-> 0] ELSE [b |-> b1, d |-> dr]
         ELSE [b |-> b, d |-> dr]

\* seq10, seq11: the loop body after the poll
WalkStep ==
    /\ pc = "body"
    /\ seq[seqno][ph].k = "walk"
    /\ LET P == seq[seqno][ph]
           U == [c \in 1 .. 4 |-> WalkLed(P, led[c], direction[c])]
           b2 == [c \in 1 .. 4 |-> U[c].b]
           d2 == [c \in 1 .. 4 |-> U[c].d]
       IN  /\ led' = b2
           /\ reg' = [x \in Regs |->
                        CASE x = "OCR0A" -> b2[1] [] x = "OCR0B" -> b2[2]
                          [] x = "OCR1A" -> b2[3] [] OTHER -> b2[4]]
           /\ \E hit \in (IF inputs < MaxInputs THEN BOOLEAN ELSE {FALSE}) :
              \E l \in (IF hit THEN 1 .. 4 ELSE {1}) :
                 direction' = IF hit /\ d2[l] = 0
                              THEN [d2 EXCEPT ![l] = P.step] ELSE d2
           /\ inputs' = Min(MaxInputs, inputs + 1)
           /\ UNCHANGED timeVars
           /\ obs' = OStep(obs, TRUE, 0)
           /\ Enter(AfterPhase(seqno, ph, b2))
    /\ UNCHANGED <<cfgVars, hwVars, setVars, micVars, start_time, ret, cbi,
                   blink_i, press_used, extra_ovf>>

MicInputs == {MIC_MIDSCALE, 1023}

NextMicIndex_nowrap(c) == c + 1

\* seq12: mic_buffer_current = (mic_buffer_current + 1) % MIC_BUFFER_SIZE
NextMicIndex(c) == (c + 1) % MIC_BUFFER_SIZE

\* the last MIC_BUFFER_SIZE samples, the newest last
Recent(s, x) ==
    IF Len(s) < MIC_BUFFER_SIZE THEN Append(s, x) ELSE Append(Tail(s), x)

\* seq12: the loop body before the poll
SoundStep ==
    /\ pc = "body"
    /\ seq[seqno][ph].k = "sound"
    /\ \E x \in (IF inputs < MaxInputs THEN MicInputs ELSE {MIC_MIDSCALE}) :
       LET buf == [mic_buffer EXCEPT ![mic_buffer_current + 1] = x]
           mad == get_mic_buffer_mad(buf)
           l == MicLevel(mad)
       IN  /\ Pass(ADC_OVF)
           /\ mic_buffer' = buf
           /\ mic_buffer_current' = NextMicIndex(mic_buffer_current)
           /\ reg' = AllRegs(l)
           /\ IF millis' > (led_time + 1) % 65536
              THEN /\ led_time' = millis' % 65536
                   /\ leds' = (IF l > 0 THEN l - 1 ELSE l)
              ELSE /\ led_time' = led_time
                   /\ leds' = l
           /\ obs' = [OStep(OTime(obs, ADC_OVF), TRUE, 0) EXCEPT
                         !.wr_millis = millis',
                         !.recent = Recent(@, x),
                         !.mic_iters = Min(MIC_BUFFER_SIZE + 1, @ + 1)]
    /\ inputs' = Min(MaxInputs, inputs + 1)
    /\ pc' = "poll"
    /\ UNCHANGED <<cfgVars, hwVars, setVars, led, direction, start_time, ret,
                   ph, j, dmcbVars, cbi, blink_i, press_used, extra_ovf>>

\* mutant: the loop also ends as soon as a press has been reported
DmcbCond_nowait == millis < d_start + seq[seqno][ph].d /\ d_pressed = 0

\* delay_millis_check_button: while(millis < (start_time + millisdelay))
DmcbCond == millis < d_start + seq[seqno][ph].d

\* ... one iteration of that loop, up to the first sample of the poll
DmcbPoll ==
    /\ pc = "dmcb"
    /\ cbi = "idle"
    /\ DmcbCond
    /\ LET first == ButtonAdc IN
       /\ Pass(ADC_OVF)
       /\ obs' = OPoll(OTime(obs, ADC_OVF), first)
       /\ cbi' = (IF IsPressed(first) THEN "debounce" ELSE "idle")
    /\ UNCHANGED <<cfgVars, hwVars, setVars, micVars, led, direction, reg,
                   start_time, ret, pc, ph, j, dmcbVars, blink_i, press_used,
                   extra_ovf, inputs>>

\* ... its return, and the caller's if(...) return 1
DmcbExit ==
    /\ pc = "dmcb"
    /\ cbi = "idle"
    /\ ~DmcbCond
    /\ UNCHANGED timeVars
    /\ IF d_pressed = 1
       THEN pc' = "done" /\ ret' = 1 /\ UNCHANGED <<ph, j, dmcbVars>>
       ELSE Enter(AfterPhase(seqno, ph, led)) /\ ret' = ret
    /\ UNCHANGED <<cfgVars, hwVars, setVars, micVars, led, direction, reg,
                   start_time, cbi, blink_i, press_used, extra_ovf, inputs, obs>>

\* mutant: the second sample is taken without the wait
SecondSample_nowait == ButtonAdcIn(0)

\* _delay_ms(300); if (adc_read(0) < 1000)
SecondSample == ButtonAdcIn(MsTicks(DEBOUNCE_MS))

\* mutant: 1 is returned on the first sample below threshold
CbiDebounce_nowait ==
    /\ cbi = "debounce"
    /\ Pass(0)
    /\ Return1
    /\ obs' = [obs EXCEPT !.cbi_ret = 1,
                          !.reports = Min(2, @ + 1),
                          !.any_pressed = TRUE]
    /\ UNCHANGED <<cfgVars, hwVars, setVars, micVars, led, direction, reg,
                   start_time, ph, j, blink_i, press_used, extra_ovf, inputs>>

\* check_button_input after a first sample below threshold:
\* _delay_ms(300) and the second sample
CbiDebounce ==
    /\ cbi = "debounce"
    /\ LET second == SecondSample
           k == MsTicks(DEBOUNCE_MS) + ADC_OVF
       IN  /\ Pass(k)
           /\ IF IsPressed(second)
              THEN /\ cbi' = "hold"
                   /\ UNCHANGED <<pc, ret, dmcbVars>>
                   /\ obs' = [OTime(obs, k) EXCEPT !.cbi_samples = Append(@, second),
                                                     !.cbi_delay = @ + DEBOUNCE_MS]
              ELSE /\ Return1
                   /\ obs' = [OTime(obs, k) EXCEPT !.cbi_samples = Append(@, second),
                                                     !.cbi_delay = @ + DEBOUNCE_MS,
                                                     !.cbi_ret = 1,
                                                     !.reports = Min(2, @ + 1),
                                                     !.any_pressed = TRUE]
    /\ UNCHANGED <<cfgVars, hwVars, setVars, micVars, led, direction, reg,
                   start_time, ph, j, blink_i, press_used, extra_ovf, inputs>>

\* _delay_ms(3000) and the third sample
CbiHold ==
    /\ cbi = "hold"
    /\ LET third == ButtonAdcIn(MsTicks(HOLD_MS))
           k == MsTicks(HOLD_MS) + ADC_OVF
       IN  /\ Pass(k)
           /\ IF IsPressed(third)
              THEN /\ cbi' = "blink_on"
                   /\ blink_i' = 0
                   /\ UNCHANGED <<pc, ret, dmcbVars>>
                   /\ obs' = [OTime(obs, k) EXCEPT !.cbi_samples = Append(@, third),
                                                     !.cbi_delay = @ + HOLD_MS]
              ELSE /\ Return1
                   /\ blink_i' = blink_i
                   /\ obs' = [OTime(obs, k) EXCEPT !.cbi_samples = Append(@, third),
                                                     !.cbi_delay = @ + HOLD_MS,
                                                     !.cbi_ret = 1,
                                                     !.reports = Min(2, @ + 1),
                                                     !.any_pressed = TRUE]
    /\ UNCHANGED <<cfgVars, hwVars, setVars, micVars, led, direction, reg,
                   start_time, ph, j, press_used, extra_ovf, inputs>>

\* the blink loop: all four channels 255, _delay_ms(50)
BlinkOn ==
    /\ cbi = "blink_on"
    /\ reg' = AllRegs(255)
    /\ Pass(MsTicks(BLINK_MS))
    /\ cbi' = "blink_off"
    /\ obs' = [OTime(obs, MsTicks(BLINK_MS)) EXCEPT !.cbi_delay = @ + BLINK_MS]
    /\ UNCHANGED <<cfgVars, hwVars, setVars, micVars, led, direction,
                   start_time, ret, pc, ph, j, dmcbVars, blink_i, press_used,
                   extra_ovf, inputs>>

\* mutant: <= for <
BlinkCond_le == blink_i + 1 <= BLINK_CYCLES

\* for(int i = 0; i < 10; i++), tested after i++
BlinkCond == blink_i + 1 < BLINK_CYCLES

\* ... all four channels 0, _delay_ms(50), i++
BlinkOff ==
    /\ cbi = "blink_off"
    /\ reg' = AllRegs(0)
    /\ Pass(MsTicks(BLINK_MS))
    /\ blink_i' = blink_i + 1
    /\ cbi' = (IF BlinkCond THEN "blink_on" ELSE "save")
    /\ obs' = [OTime(obs, MsTicks(BLINK_MS)) EXCEPT !.cbi_delay = @ + BLINK_MS]
    /\ UNCHANGED <<cfgVars, hwVars, setVars, micVars, led, direction,
                   start_time, ret, pc, ph, j, dmcbVars, press_used,
                   extra_ovf, inputs>>

\* mutant: the byte is not written
save_settings_none(ee, s) == ee

\* save_settings(): eeprom_update_byte writes the byte when it differs
save_settings(ee, s) == IF ee = s THEN ee ELSE s % 256

\* load_settings(): eeprom_read_byte
load_settings(ee) == ee

\* _delay_ms(2000); save_settings()
CbiSave ==
    /\ cbi = "save"
    /\ Pass(MsTicks(SAVE_DELAY_MS))
    /\ settings_start_seq_ee' = save_settings(settings_start_seq_ee, settings_start_seq)
    /\ cbi' = "reset"
    /\ obs' = [OTime(obs, MsTicks(SAVE_DELAY_MS)) EXCEPT
                  !.cbi_delay = @ + SAVE_DELAY_MS, !.saved = TRUE]
    /\ UNCHANGED <<cfgVars, hwVars, settings_start_seq, wdt, micVars, led,
                   direction, reg, start_time, ret, pc, ph, j, dmcbVars,
                   blink_i, press_used, extra_ovf, inputs>>

\* reset(): wdt_enable(WDTO_30MS); while(1){}
Reset ==
    /\ cbi = "reset"
    /\ wdt' = TRUE
    /\ cbi' = "spin"
    /\ UNCHANGED <<cfgVars, hwVars, settings_start_seq, settings_start_seq_ee,
                   micVars, led, direction, reg, start_time, ret, pc, ph, j,
                   dmcbVars, blink_i, timeVars, press_used, extra_ovf, inputs,
                   obs>>

\* the button line drops below the threshold for len ms
Press ==
    /\ Running
    /\ ~press_used
    /\ low_ticks = 0
    /\ \E len \in PressLengths :
          /\ len > DEBOUNCE_MS + HOLD_MS => millis < LongPressWindow
          /\ low_ticks' = MsTicks(len)
          /\ obs' = [obs EXCEPT !.since_drop = 0, !.sampled = FALSE,
                                !.dly_unsampled = 0, !.press_len = len]
    /\ press_used' = TRUE
    /\ UNCHANGED <<cfgVars, hwVars, setVars, micVars, led, direction, reg,
                   start_time, ret, pc, ph, j, dmcbVars, cbi, blink_i, millis,
                   timer_interrupt_ticks, extra_ovf, inputs>>

\* ISR(TIMER0_OVF_vect) between two foreground steps
TIMER0_OVF ==
    /\ Running
    /\ extra_ovf < MaxExtraOvf
    /\ millis < MaxMillis
    /\ LET a == Timer0Ovf(timer_interrupt_ticks, millis) IN
       /\ timer_interrupt_ticks' = a.t
       /\ millis' = a.m
    /\ extra_ovf' = extra_ovf + 1
    /\ UNCHANGED <<cfgVars, hwVars, setVars, micVars, led, direction, reg,
                   start_time, ret, pc, ph, j, dmcbVars, cbi, blink_i,
                   low_ticks, press_used, inputs, obs>>

----------------------------------------------------------------------------
(* The sequence engine: one sequence, called with one timeout *)

\* main() at its start, before load_settings
Main0 ==
    [pc |-> "boot",                    \* boot, init, head, demo, stay, call, spin
     settings_start_seq_applied |-> 0,
     button_pressed |-> 0,
     k |-> 0,                          \* stay: the next of seq1(-1) .. seq12(-1)
     from |-> "none"]                  \* call: "demo" or "stay"

\* main() inside a call of a sequence
MainCall == [Main0 EXCEPT !.pc = "call"]

\* what the sequence that ran before may have left in the channel registers
LeftOver == {0, 255}

Init ==
    /\ seqno \in Seqs
    /\ timeout \in Timeouts
    /\ main = MainCall
    /\ pc = "entry"
    /\ ph = 0
    /\ j = 0
    /\ led = [c \in 1 .. 4 |-> 0]
    /\ direction = [c \in 1 .. 4 |-> 0]
    /\ reg \in {AllRegs(v) : v \in LeftOver}
    /\ start_time = 0
    /\ ret = -1
    /\ d_start = 0
    /\ d_pressed = 0
    /\ cbi = "idle"
    /\ blink_i = 0
    /\ millis = 0
    /\ timer_interrupt_ticks = 0
    /\ low_ticks = 0
    /\ press_used = FALSE
    /\ extra_ovf = 0
    /\ settings_start_seq = (IF timeout < 0 THEN seqno ELSE 0)
    /\ settings_start_seq_ee = 0
    /\ wdt = FALSE
    /\ mic_buffer = InitMicBuffer
    /\ mic_buffer_current = 0
    /\ leds = 0
    /\ led_time = 0
    /\ inputs = 0
    /\ TCNT1 = 0
    /\ PB3 = 0
    /\ TOV1 = 0
    /\ OCF1A = 0
    /\ rd = Rd0
    /\ obs = Obs0

Next ==
    \/ SeqEntry
    \/ LoopTest
    \/ Poll
    \/ Body
    \/ Write
    \/ WalkStep
    \/ SoundStep
    \/ DmcbPoll
    \/ DmcbExit
    \/ CbiDebounce
    \/ CbiHold
    \/ BlinkOn
    \/ BlinkOff
    \/ CbiSave
    \/ Reset
    \/ Press

Spec == Init /\ [][Next]_vars

(* The sequences that call delay_millis_check_button, run without a        *)
(* timeout, with a foreground that keeps running.                           *)

DelaySeqs == {s \in Seqs : \E q \in 1 .. Len(seq[s]) : seq[s][q].k = "dmcb"}

InitDelay == Init /\ seqno \in DelaySeqs /\ timeout < 0 /\ reg = AllRegs(0)

\* the steps of the foreground program; the button is the environment's
Foreground ==
    \/ SeqEntry
    \/ LoopTest
    \/ Poll
    \/ Body
    \/ Write
    \/ DmcbPoll
    \/ DmcbExit
    \/ CbiDebounce
    \/ CbiHold
    \/ BlinkOn
    \/ BlinkOff
    \/ CbiSave
    \/ Reset

NextDelay ==
    \/ SeqEntry
    \/ LoopTest
    \/ Poll
    \/ Body
    \/ Write
    \/ DmcbPoll
    \/ DmcbExit
    \/ CbiDebounce
    \/ CbiHold
    \/ BlinkOn
    \/ BlinkOff
    \/ CbiSave
    \/ Reset
    \/ Press

DelaySpec == InitDelay /\ [][NextDelay]_vars /\ WF_vars(Foreground)

(* The sequence engine with a bounded timeout and a button that is never   *)
(* pressed.  The foreground never stops executing, and the time base runs  *)
(* with it.                                                                *)

InitQuiet == Init /\ timeout >= 0

NextQuiet ==
    \/ SeqEntry
    \/ LoopTest
    \/ Poll
    \/ Body
    \/ Write
    \/ WalkStep
    \/ SoundStep
    \/ DmcbPoll
    \/ DmcbExit
    \/ TIMER0_OVF

QuietSpec == InitQuiet /\ [][NextQuiet]_vars /\ WF_vars(NextQuiet)

----------------------------------------------------------------------------
(* The emulated PWM channel: timer 1 free-running over 256 counts, the     *)
(* duty register OCR1A held at one value, and the two handlers.  A handler *)
(* runs during the count in which its interrupt was raised or during the   *)
(* next one (interrupt latency); of two pending handlers the compare match *)
(* handler, which has the lower vector number, runs first.                 *)

pwmFrame == <<seqno, timeout, main, pc, ph, j, led, direction, reg, start_time,
              ret, d_start, d_pressed, cbi, blink_i, millis,
              timer_interrupt_ticks, low_ticks, press_used, extra_ovf,
              settings_start_seq, settings_start_seq_ee, wdt, mic_buffer,
              mic_buffer_current, leds, led_time, inputs, rd>>

\* a raised interrupt ages by one count
Aged(f) == IF f = 0 THEN 0 ELSE 2

\* timer 1 advances by one count and raises its interrupts; the pin's level
\* during the count that ends is added to the period's high time
Timer1Count ==
    /\ TOV1 < 2
    /\ OCF1A < 2
    /\ TCNT1' = (TCNT1 + 1) % 256
    /\ TOV1' = (IF TCNT1' = 0 THEN 1 ELSE Aged(TOV1))
    /\ OCF1A' = (IF TCNT1' = reg["OCR1A"] THEN 1 ELSE Aged(OCF1A))
    /\ LET run == IF obs.pwm_written /\ PB3 = 1
                   THEN Min(2 * 256, obs.pwm_run + 1) ELSE 0
       IN  obs' = IF TCNT1' = 0
                  THEN [obs EXCEPT !.pwm_periods = Min(MaxPeriods, @ + 1),
                                   !.pwm_last = obs.pwm_high + PB3,
                                   !.pwm_high = 0,
                                   !.pwm_ovf = IF obs.pwm_written
                                               THEN Min(MaxPeriods, @ + 1) ELSE @,
                                   !.pwm_run = run]
                  ELSE [obs EXCEPT !.pwm_high = @ + PB3, !.pwm_run = run]
    /\ UNCHANGED <<PB3, pwmFrame>>

\* mutant: the pin is set whatever the duty
Timer1OvfSets_always == TRUE

\* mutant: >= for >
Timer1OvfSets_ge == reg["OCR1A"] >= DEAD_ZONE

\* if(OCR1A > 4)
Timer1OvfSets == reg["OCR1A"] > DEAD_ZONE

\* ISR(TIMER1_OVF_vect)
TIMER1_OVF ==
    /\ TOV1 > 0
    /\ OCF1A = 0
    /\ TOV1' = 0
    /\ PB3' = (IF Timer1OvfSets THEN 1 ELSE PB3)
    /\ UNCHANGED <<TCNT1, OCF1A, obs, pwmFrame>>

\* mutant: the compare match handler zeroes the duty register as well
TIMER1_COMPA_clobber ==
    /\ OCF1A > 0
    /\ OCF1A' = 0
    /\ PB3' = 0
    /\ reg' = [reg EXCEPT !["OCR1A"] = 0]
    /\ UNCHANGED <<TCNT1, TOV1, obs, seqno, timeout, main, pc, ph, j, led,
                   direction, start_time, ret, d_start, d_pressed, cbi,
                   blink_i, millis, timer_interrupt_ticks, low_ticks,
                   press_used, extra_ovf, settings_start_seq,
                   settings_start_seq_ee, wdt, mic_buffer,
                   mic_buffer_current, leds, led_time, inputs, rd>>

\* ISR(TIMER1_COMPA_vect)
TIMER1_COMPA ==
    /\ OCF1A > 0
    /\ OCF1A' = 0
    /\ PB3' = 0
    /\ UNCHANGED <<TCNT1, TOV1, obs, pwmFrame>>

\* the duty register holds any value; PORTB is 0 after reset
InitPwm ==
    /\ seqno = 1
    /\ timeout = -1
    /\ main = MainCall
    /\ pc = "entry"
    /\ ph = 0
    /\ j = 0
    /\ led = [c \in 1 .. 4 |-> 0]
    /\ direction = [c \in 1 .. 4 |-> 0]
    /\ \E d \in 0 .. 255 : reg = [AllRegs(0) EXCEPT !["OCR1A"] = d]
    /\ start_time = 0
    /\ ret = -1
    /\ d_start = 0
    /\ d_pressed = 0
    /\ cbi = "idle"
    /\ blink_i = 0
    /\ millis = 0
    /\ timer_interrupt_ticks = 0
    /\ low_ticks = 0
    /\ press_used = FALSE
    /\ extra_ovf = 0
    /\ settings_start_seq = 0
    /\ settings_start_seq_ee = 0
    /\ wdt = FALSE
    /\ mic_buffer = InitMicBuffer
    /\ mic_buffer_current = 0
    /\ leds = 0
    /\ led_time = 0
    /\ inputs = 0
    /\ TCNT1 = 0
    /\ PB3 = 0
    /\ TOV1 = 0
    /\ OCF1A = 0
    /\ rd = Rd0
    /\ obs = Obs0

NextPwm ==
    \/ Timer1Count
    \/ TIMER1_OVF
    \/ TIMER1_COMPA

SpecPwm == InitPwm /\ [][NextPwm]_vars

(* The emulated channel while the foreground rewrites its duty register    *)
(* once, at any point of the timer period.  The duty before the write is   *)
(* 0 (pin low throughout) or 255 (pin high throughout), so the write meets *)
(* either pin level at every count.  A compare match is raised when the    *)
(* counter arrives at the register's value: a write of the count the timer *)
(* is at raises none in that period.                                       *)

OldDuties == {0, 255}
NewDuties == {0, 4, 5, 128, 255}

\* OCR1A = v in the foreground
WriteOCR1A ==
    /\ ~obs.pwm_written
    /\ \E v \in NewDuties : reg' = [reg EXCEPT !["OCR1A"] = v]
    /\ obs' = [obs EXCEPT !.pwm_written = TRUE, !.pwm_ovf = 0, !.pwm_run = 0]
    /\ UNCHANGED <<seqno, timeout, main, pc, ph, j, led, direction, start_time,
                   ret, d_start, d_pressed, cbi, blink_i, millis,
                   timer_interrupt_ticks, low_ticks, press_used, extra_ovf,
                   settings_start_seq, settings_start_seq_ee, wdt, mic_buffer,
                   mic_buffer_current, leds, led_time, inputs, hwVars>>

InitPwmWrite == InitPwm /\ reg["OCR1A"] \in OldDuties

NextPwmWrite ==
    \/ Timer1Count
    \/ TIMER1_OVF
    \/ TIMER1_COMPA
    \/ WriteOCR1A

SpecPwmWrite == InitPwmWrite /\ [][NextPwmWrite]_vars

----------------------------------------------------------------------------
(* The time base while the foreground reads millis.  The counter is a      *)
(* uint64_t that is neither volatile nor read with interrupts disabled, so *)
(* on the 8-bit target the read is eight single-byte loads, in an order    *)
(* the compiler chooses, and TIMER0_OVF_vect can run between any two.      *)

\* ISR(TIMER0_OVF_vect) at an overflow of the free-running timer 0
Timer0Overflow ==
    /\ obs.ovf < MaxOvf
    /\ LET a == Timer0Ovf(timer_interrupt_ticks, millis) IN
       /\ timer_interrupt_ticks' = a.t
       /\ millis' = a.m
    /\ obs' = [obs EXCEPT !.ovf = @ + 1]
    /\ UNCHANGED <<cfgVars, hwVars, setVars, micVars, led, direction, reg,
                   start_time, ret, pc, ph, j, dmcbVars, cbi, blink_i,
                   low_ticks, press_used, extra_ovf, inputs>>

\* one byte of millis is loaded
ReadByte ==
    /\ rd.i < 8
    /\ LET b == IF rd.up THEN rd.i ELSE 7 - rd.i IN
       rd' = [rd EXCEPT !.i = @ + 1,
                        !.val = @ + Byte(millis, b) * Weight(b)]
    /\ UNCHANGED <<cfgVars, TCNT1, PB3, TOV1, OCF1A, setVars, micVars, led,
                   direction, reg, start_time, ret, pc, ph, j, dmcbVars, cbi,
                   blink_i, timeVars, press_used, extra_ovf, inputs, obs>>

\* values of the counter at which a read may begin
StartMillis == {0, 1, 254, 255, 256, 511, 512}

\* a read begins: uint64_t start_time = millis, or millis < ...
InitRead ==
    /\ seqno = 1
    /\ timeout = -1
    /\ main = MainCall
    /\ pc = "entry"
    /\ ph = 0
    /\ j = 0
    /\ led = [c \in 1 .. 4 |-> 0]
    /\ direction = [c \in 1 .. 4 |-> 0]
    /\ reg = AllRegs(0)
    /\ start_time = 0
    /\ ret = -1
    /\ d_start = 0
    /\ d_pressed = 0
    /\ cbi = "idle"
    /\ blink_i = 0
    /\ millis \in StartMillis
    /\ timer_interrupt_ticks \in 0 .. TICK_LIMIT
    /\ low_ticks = 0
    /\ press_used = FALSE
    /\ extra_ovf = 0
    /\ settings_start_seq = 0
    /\ settings_start_seq_ee = 0
    /\ wdt = FALSE
    /\ mic_buffer = InitMicBuffer
    /\ mic_buffer_current = 0
    /\ leds = 0
    /\ led_time = 0
    /\ inputs = 0
    /\ TCNT1 = 0
    /\ PB3 = 0
    /\ TOV1 = 0
    /\ OCF1A = 0
    /\ \E u \in BOOLEAN : rd = [i |-> 0, val |-> 0, lo |-> millis, up |-> u]
    /\ obs = Obs0

NextRead ==
    \/ ReadByte
    \/ Timer0Overflow

SpecRead == InitRead /\ [][NextRead]_vars

(* The three interrupt handlers with the foreground idle: timer 0 and      *)
(* timer 1 run freely and each handler runs at its interrupt.              *)

NextIrq ==
    \/ Timer0Overflow
    \/ Timer1Count
    \/ TIMER1_OVF
    \/ TIMER1_COMPA

SpecIrq == InitPwmWrite /\ [][NextIrq]_vars

----------------------------------------------------------------------------
(* The sound envelope estimator applied to a ring buffer that holds k      *)
(* entries of one level and 16 - k of another.                             *)

MicLevels == {0, 512, 1023}

TwoLevel(a, b, k) == [n \in 1 .. MIC_BUFFER_SIZE |-> IF n <= k THEN a ELSE b]

\* seq12: mic = get_mic_buffer_mad(); ... leds = (uint8_t)mic; OCRx = leds
MicEval ==
    /\ obs.mad < 0
    /\ LET mad == get_mic_buffer_mad(mic_buffer)
           l == MicLevel(mad)
       IN  /\ obs' = [obs EXCEPT !.mad = mad]
           /\ leds' = l
           /\ reg' = AllRegs(l)
    /\ UNCHANGED <<cfgVars, hwVars, setVars, mic_buffer, mic_buffer_current,
                   led_time, led, direction, start_time, ret, pc, ph, j,
                   dmcbVars, cbi, blink_i, timeVars, press_used, extra_ovf,
                   inputs>>

InitMic ==
    /\ seqno = 12
    /\ timeout = -1
    /\ main = MainCall
    /\ pc = "body"
    /\ ph = 1
    /\ j = 0
    /\ led = [c \in 1 .. 4 |-> 0]
    /\ direction = [c \in 1 .. 4 |-> 0]
    /\ reg = AllRegs(0)
    /\ start_time = 0
    /\ ret = -1
    /\ d_start = 0
    /\ d_pressed = 0
    /\ cbi = "idle"
    /\ blink_i = 0
    /\ millis = 0
    /\ timer_interrupt_ticks = 0
    /\ low_ticks = 0
    /\ press_used = FALSE
    /\ extra_ovf = 0
    /\ settings_start_seq = 0
    /\ settings_start_seq_ee = 0
    /\ wdt = FALSE
    /\ \E a \in 0 .. 1023, b \in MicLevels, k \in 0 .. MIC_BUFFER_SIZE :
          mic_buffer = TwoLevel(a, b, k)
    /\ mic_buffer_current = 0
    /\ leds = 0
    /\ led_time = 0
    /\ inputs = 0
    /\ TCNT1 = 0
    /\ PB3 = 0
    /\ TOV1 = 0
    /\ OCF1A = 0
    /\ rd = Rd0
    /\ obs = Obs0

NextMic == MicEval

SpecMic == InitMic /\ [][NextMic]_vars

----------------------------------------------------------------------------
(* main(): start-up, the demo loop and the chain of seq1(-1) .. seq12(-1).  *)
(* A called sequence is represented by its outcomes: it returns 0 on its    *)
(* timeout, 1 on a tap, or takes the long-press path of                      *)
(* check_button_input, which saves the settings byte and restarts.           *)

DEMO_TIMEOUT == 8000
NUM_STAY == 12
MaxRestarts == 2

\* the values an EEPROM byte can hold at power-up
StoredBytes == 0 .. 255

mainFrame == <<pc, ph, j, led, direction, reg, start_time, ret, d_start,
               d_pressed, cbi, blink_i, millis, timer_interrupt_ticks,
               low_ticks, press_used, extra_ovf, mic_buffer,
               mic_buffer_current, leds, led_time, inputs, hwVars>>

\* mutant: the watchdog is left as the restart found it
wdt_init_keeps ==
    /\ main.pc = "boot"
    /\ wdt' = wdt
    /\ main' = [main EXCEPT !.pc = "init"]
    /\ UNCHANGED <<seqno, timeout, settings_start_seq, settings_start_seq_ee,
                   obs, mainFrame>>

\* wdt_init(), section .init3: MCUSR = 0; wdt_disable();
wdt_init ==
    /\ main.pc = "boot"
    /\ wdt' = FALSE
    /\ main' = [main EXCEPT !.pc = "init"]
    /\ UNCHANGED <<seqno, timeout, settings_start_seq, settings_start_seq_ee,
                   obs, mainFrame>>

\* main() up to the loop: set-up, sei(), load_settings(),
\* settings_start_seq_applied = 0
MainInit ==
    /\ main.pc = "init"
    /\ settings_start_seq' = load_settings(settings_start_seq_ee)
    /\ main' = [main EXCEPT !.pc = "head", !.settings_start_seq_applied = 0]
    /\ obs' = [obs EXCEPT !.loads = Min(2, @ + 1)]
    /\ UNCHANGED <<seqno, timeout, settings_start_seq_ee, wdt, mainFrame>>

\* the head of while(1): button_pressed and settings_start_seq_applied
MainHead ==
    /\ main.pc = "head"
    /\ LET skip == main.settings_start_seq_applied = 0 /\ settings_start_seq > 0
           bp == IF skip THEN 1 ELSE 0
       IN  main' = [main EXCEPT
                      !.button_pressed = bp,
                      !.settings_start_seq_applied =
                          IF @ = 0 /\ ~skip THEN 1 ELSE @,
                      !.pc = IF bp = 0 THEN "demo" ELSE "stay",
                      !.k = IF bp = 0 THEN 0 ELSE 1]
    /\ UNCHANGED <<seqno, timeout, settings_start_seq, settings_start_seq_ee,
                   wdt, obs, mainFrame>>

\* mutant: settings_start_seq is not cleared in the demo loop
DemoPick_keeps ==
    /\ main.pc = "demo"
    /\ main.button_pressed = 0
    /\ \E randseq \in 0 .. NUM_SEQ - 1 : seqno' = randseq + 1
    /\ timeout' = DEMO_TIMEOUT
    /\ main' = [main EXCEPT !.pc = "call", !.from = "demo"]
    /\ obs' = [obs EXCEPT !.calls = Min(2, @ + 1), !.demo_seq = 0]
    /\ UNCHANGED <<settings_start_seq, settings_start_seq_ee, wdt, mainFrame>>

\* while(!button_pressed): settings_start_seq = 0; the call of
\* seq[rand() % NUM_SEQ](8000)
DemoPick ==
    /\ main.pc = "demo"
    /\ main.button_pressed = 0
    /\ settings_start_seq' = 0
    /\ \E randseq \in 0 .. NUM_SEQ - 1 : seqno' = randseq + 1
    /\ timeout' = DEMO_TIMEOUT
    /\ main' = [main EXCEPT !.pc = "call", !.from = "demo"]
    /\ obs' = [obs EXCEPT !.calls = Min(2, @ + 1), !.demo_seq = 0]
    /\ UNCHANGED <<settings_start_seq_ee, wdt, mainFrame>>

\* mutant: every stage of the chain runs
StayCond_always(applied, s, k) == TRUE

\* if(settings_start_seq_applied || settings_start_seq < k + 1)
StayCond(applied, s, k) == applied # 0 \/ s < k + 1

\* mutant: the chain stays at the stage it is at
NextStay_repeat(m) == [m EXCEPT !.pc = "stay", !.from = "none"]

\* where main goes from stage k of the chain
NextStay(m) ==
    IF m.k < NUM_STAY
    THEN [m EXCEPT !.pc = "stay", !.k = @ + 1, !.from = "none"]
    ELSE [m EXCEPT !.pc = "head", !.k = 0, !.from = "none"]

\* mutant: a stage of the chain also stores its number
StayStep_saves ==
    /\ main.pc = "stay"
    /\ IF StayCond(main.settings_start_seq_applied, settings_start_seq, main.k)
       THEN /\ settings_start_seq' = main.k
            /\ settings_start_seq_ee' = main.k
            /\ seqno' = main.k
            /\ timeout' = -1
            /\ main' = [main EXCEPT !.pc = "call", !.from = "stay",
                                    !.settings_start_seq_applied = 1]
            /\ obs' = [obs EXCEPT !.calls = Min(2, @ + 1)]
       ELSE /\ main' = NextStay(main)
            /\ UNCHANGED <<seqno, timeout, settings_start_seq,
                           settings_start_seq_ee, obs>>
    /\ UNCHANGED <<wdt, mainFrame>>

\* one stage of the chain: the test and, when it holds, the call of seqk(-1)
StayStep ==
    /\ main.pc = "stay"
    /\ IF StayCond(main.settings_start_seq_applied, settings_start_seq, main.k)
       THEN /\ settings_start_seq' = main.k
            /\ seqno' = main.k
            /\ timeout' = -1
            /\ main' = [main EXCEPT !.pc = "call", !.from = "stay",
                                    !.settings_start_seq_applied = 1]
            /\ obs' = [obs EXCEPT !.calls = Min(2, @ + 1)]
       ELSE /\ main' = NextStay(main)
            /\ UNCHANGED <<seqno, timeout, settings_start_seq, obs>>
    /\ UNCHANGED <<settings_start_seq_ee, wdt, mainFrame>>

\* mutant: the chain is entered at the pattern that was running
AfterDemo_same(m, r, n) ==
    IF r # 0
    THEN [m EXCEPT !.button_pressed = r, !.pc = "stay", !.k = n, !.from = "none"]
    ELSE [m EXCEPT !.button_pressed = r, !.pc = "demo", !.from = "none"]

\* button_pressed = seq[randseq](8000); and the test of while(!button_pressed)
AfterDemo(m, r, n) ==
    IF r # 0
    THEN [m EXCEPT !.button_pressed = r, !.pc = "stay", !.k = 1, !.from = "none"]
    ELSE [m EXCEPT !.button_pressed = r, !.pc = "demo", !.from = "none"]

\* the called sequence returns: 0 on its timeout, 1 on a tap
SeqReturn ==
    /\ main.pc = "call"
    /\ \E r \in (IF timeout < 0 THEN {1} ELSE {0, 1}) :
          IF main.from = "demo"
          THEN /\ main' = AfterDemo(main, r, seqno)
               /\ obs' = [obs EXCEPT !.demo_seq = IF r = 1 THEN seqno ELSE 0]
          ELSE /\ main' = NextStay(main)
               /\ obs' = [obs EXCEPT !.demo_seq = 0]
    /\ UNCHANGED <<seqno, timeout, settings_start_seq, settings_start_seq_ee,
                   wdt, mainFrame>>

\* the called sequence polls the button through a long press:
\* check_button_input blinks, calls save_settings() and reset()
SeqLongPress ==
    /\ main.pc = "call"
    /\ obs.longs < MaxRestarts
    /\ settings_start_seq_ee' =
           save_settings(settings_start_seq_ee, settings_start_seq)
    /\ wdt' = TRUE
    /\ main' = [main EXCEPT !.pc = "spin"]
    /\ obs' = [obs EXCEPT !.longs = @ + 1, !.last_s = settings_start_seq,
                          !.demo_seq = 0]
    /\ UNCHANGED <<seqno, timeout, settings_start_seq, mainFrame>>

\* the armed watchdog expires: the device restarts with its RAM initialised
\* again, the EEPROM as it was and the watchdog still enabled
WatchdogRestart ==
    /\ wdt
    /\ main.pc # "boot"
    /\ main' = Main0
    /\ settings_start_seq' = 0
    /\ obs' = [obs EXCEPT !.restarts = Min(MaxRestarts + 1, @ + 1),
                          !.loads = 0, !.calls = 0, !.demo_seq = 0]
    /\ UNCHANGED <<seqno, timeout, settings_start_seq_ee, wdt, mainFrame>>

InitMain ==
    /\ seqno = 1
    /\ timeout = -1
    /\ main = Main0
    /\ pc = "entry"
    /\ ph = 0
    /\ j = 0
    /\ led = [c \in 1 .. 4 |-> 0]
    /\ direction = [c \in 1 .. 4 |-> 0]
    /\ reg = AllRegs(0)
    /\ start_time = 0
    /\ ret = -1
    /\ d_start = 0
    /\ d_pressed = 0
    /\ cbi = "idle"
    /\ blink_i = 0
    /\ millis = 0
    /\ timer_interrupt_ticks = 0
    /\ low_ticks = 0
    /\ press_used = FALSE
    /\ extra_ovf = 0
    /\ settings_start_seq = 0
    /\ settings_start_seq_ee \in StoredBytes
    /\ wdt = FALSE
    /\ mic_buffer = InitMicBuffer
    /\ mic_buffer_current = 0
    /\ leds = 0
    /\ led_time = 0
    /\ inputs = 0
    /\ TCNT1 = 0
    /\ PB3 = 0
    /\ TOV1 = 0
    /\ OCF1A = 0
    /\ rd = Rd0
    /\ obs = Obs0

\* the steps the program takes by itself
MainProgram ==
    \/ wdt_init
    \/ MainInit
    \/ MainHead
    \/ DemoPick
    \/ StayStep
    \/ WatchdogRestart

NextMain ==
    \/ wdt_init
    \/ MainInit
    \/ MainHead
    \/ DemoPick
    \/ StayStep
    \/ SeqReturn
    \/ SeqLongPress
    \/ WatchdogRestart

SpecMain == InitMain /\ [][NextMain]_vars

FairSpecMain == InitMain /\ [][NextMain]_vars /\ WF_vars(MainProgram)

TypeOK ==
    /\ ret \in {-1, 0, 1}
    /\ \A x \in Regs : reg[x] \in 0 .. 255
    /\ millis \in 0 .. MaxMillis
    /\ timer_interrupt_ticks \in 0 .. TICK_LIMIT

----------------------------------------------------------------------------
(* Properties *)

\* the longest fixed delay of a step of sequence s, in ms
MaxStepMs(s) ==
    LET D == {seq[s][p].d : p \in {q \in 1 .. Len(seq[s]) : seq[s][q].k # "dmcb"}}
    IN  CHOOSE m \in D : \A x \in D : x <= m

InLadder == cbi \in {"debounce", "hold", "blink_on", "blink_off", "save", "reset", "spin"}
Returned(r) == pc = "done" /\ ret = r

C4_NeverTimesOut == timeout < 0 => ret # 0

\* an unbounded sequence past a loop test at which every bounded timeout of
\* the model would have expired
C4_Witness ==
    timeout < 0 /\ pc = "poll" /\ obs.cycle_millis > start_time + MaxTimeout

C6_PollEveryStep == obs.dly <= 1 /\ ~obs.upd_after_dly

\* C6 as amended: between two fixed delays there is a poll, and a register
\* update follows a fixed delay without a poll in between only in seq3,
\* where the last step of the fade-out loop (value 1, 1 ms) is followed by
\* the write of 0 to all four channels.
C6_PollEveryDelay ==
    /\ obs.dly <= 1
    /\ obs.upd_after_dly =>
          /\ seqno = 3
          /\ pc = "dmcb"
          /\ ph = Len(seq3)
          /\ reg = AllRegs(0)

\* seq3 after the write that follows the fade-out loop, before the next poll
C6_Witness == seqno = 3 /\ obs.upd_after_dly /\ obs.dly = 1

\* C7: a call of check_button_input whose first sample is below threshold
\* and whose second sample, 300 ms later, is not, returns 1 after 300 ms of
\* delay; one whose second sample is below threshold and whose third, a
\* further 3000 ms later, is not, returns 1 after 3300 ms of delay; neither
\* blinks, saves or arms the watchdog.  A line that stays low for 250 ms
\* never takes the call past the second sample, and once sampled is reported
\* as a press.
C7_TapReturnsOne ==
    LET S == obs.cbi_samples
        low(n) == S[n] < BUTTON_THRESHOLD
    IN  /\ (Len(S) = 2 /\ low(1) /\ ~low(2)) =>
              /\ obs.cbi_ret = 1 /\ obs.cbi_delay = DEBOUNCE_MS
              /\ cbi = "idle" /\ ~wdt /\ ~obs.saved /\ blink_i = 0
        /\ (Len(S) = 3 /\ low(1) /\ low(2) /\ ~low(3)) =>
              /\ obs.cbi_ret = 1 /\ obs.cbi_delay = DEBOUNCE_MS + HOLD_MS
              /\ cbi = "idle" /\ ~wdt /\ ~obs.saved /\ blink_i = 0
        /\ obs.press_len = 250 =>
              /\ cbi \in {"idle", "debounce"}
              /\ ~wdt
              /\ Len(S) <= 2
              /\ (obs.sampled /\ cbi = "idle") => obs.any_pressed

\* a 250 ms dip, sampled and reported by the second sample
C7_Witness ==
    /\ obs.press_len = 250 /\ obs.any_pressed /\ Len(obs.cbi_samples) = 2
    /\ obs.cbi_ret = 1 /\ obs.cbi_delay = DEBOUNCE_MS

\* three samples of one call, all below threshold
ThreeLow ==
    /\ Len(obs.cbi_samples) = 3
    /\ \A n \in 1 .. 3 : obs.cbi_samples[n] < BUTTON_THRESHOLD

\* C8: the watchdog is armed only after three samples of one call (at 0,
\* 300 and 3300 ms) all read below threshold; after three such samples the
\* call blinks all four channels 255 / 0 ten times, then saves the settings,
\* then arms the watchdog, in that order, and never returns.
C8_LongPressRestarts ==
    /\ wdt =>
          /\ ThreeLow
          /\ cbi = "spin"
          /\ blink_i = BLINK_CYCLES
          /\ obs.saved
          /\ settings_start_seq_ee = settings_start_seq
          /\ obs.cbi_delay = DEBOUNCE_MS + HOLD_MS
                               + BLINK_CYCLES * 2 * BLINK_MS + SAVE_DELAY_MS
    /\ ThreeLow <=> cbi \in {"blink_on", "blink_off", "save", "reset", "spin"}
    /\ ThreeLow => (obs.cbi_ret = -1 /\ pc # "done" /\ ret = -1)
    /\ cbi \in {"blink_on", "blink_off"} =>
          (blink_i < BLINK_CYCLES /\ ~obs.saved /\ ~wdt)
    /\ cbi = "blink_off" => reg = AllRegs(255)
    /\ (cbi = "blink_on" /\ blink_i > 0) => reg = AllRegs(0)
    /\ cbi = "save" => (blink_i = BLINK_CYCLES /\ reg = AllRegs(0)
                        /\ ~obs.saved /\ ~wdt)
    /\ cbi = "reset" => (blink_i = BLINK_CYCLES /\ obs.saved /\ ~wdt)
    /\ obs.saved => ThreeLow

\* the watchdog armed by a long press in stay mode, the settings saved
C8_Witness ==
    wdt /\ ThreeLow /\ obs.saved /\ settings_start_seq_ee = seqno /\ seqno > 0

\* C9: a call of check_button_input whose first sample reads >= 1000
\* returns 0 after that one conversion and no delay, leaving the four
\* channel registers, the settings byte, the EEPROM, the ring buffer and the
\* watchdog as they were; a call whose first sample is below 1000 does not
\* return 0.
C9_FastPath ==
    /\ [](obs.cbi_ret = 0 =>
            /\ Len(obs.cbi_samples) = 1
            /\ obs.cbi_samples[1] >= BUTTON_THRESHOLD
            /\ obs.cbi_delay = 0)
    /\ [][obs'.call # obs.call =>
            IF obs'.cbi_samples[1] >= BUTTON_THRESHOLD
            THEN /\ obs'.cbi_ret = 0
                 /\ cbi' = "idle"
                 /\ Len(obs'.cbi_samples) = 1
                 /\ obs'.cbi_delay = 0
                 /\ reg' = reg
                 /\ settings_start_seq' = settings_start_seq
                 /\ settings_start_seq_ee' = settings_start_seq_ee
                 /\ mic_buffer' = mic_buffer
                 /\ mic_buffer_current' = mic_buffer_current
                 /\ wdt' = wdt
                 /\ <<millis', timer_interrupt_ticks'>> =
                       LET a == Overflows(ADC_OVF, timer_interrupt_ticks, millis)
                       IN  <<a.m, a.t>>
            ELSE obs'.cbi_ret = -1 /\ cbi' = "debounce"]_vars

\* a call that returned 0 while the line, pressed once, was high again
C9_Witness ==
    /\ obs.cbi_ret = 0 /\ press_used /\ low_ticks = 0
    /\ obs.cbi_samples = <<RELEASED_ADC>>

\* C10: with the duty register held at d, the pin is high for d counts, one
\* more or one less, of every 256-count period that began with an overflow;
\* for d <= 4 the pin is never high.
C10_HighTime ==
    LET d == reg["OCR1A"] IN
    /\ obs.pwm_periods >= 2 =>
          IF d > 4 THEN obs.pwm_last \in (d - 1) .. (d + 1)
          ELSE obs.pwm_last = 0
    /\ d <= 4 => (PB3 = 0 /\ obs.pwm_high = 0 /\ obs.pwm_last = 0)

\* full scale with a late compare match handler: high for all 256 counts
C10_Witness ==
    reg["OCR1A"] = 255 /\ obs.pwm_periods >= 2 /\ obs.pwm_last = 256

C12_NoTornRead == rd.i = 8 => (rd.val >= rd.lo /\ rd.val <= millis)

\* the blink loop and the delay before save_settings
InLongPress == cbi \in {"blink_on", "blink_off", "save"}

\* C13 as stated: from the third low sample until the restart no interrupt
\* handler runs, so the tick counter and millis stay as they are.
C13_MaskedInLongPress ==
    [][InLongPress =>
          (millis' = millis /\ timer_interrupt_ticks' = timer_interrupt_ticks)]_vars

\* C13 as amended: interrupts stay enabled on the long-press path: over each
\* of its delays (50 ms per blink half-cycle, 2000 ms before the save) the
\* timer-0 handler runs once per overflow and the time base advances
\* accordingly.
C13_HandlersKeepRunning ==
    [][InLongPress =>
          LET d == IF cbi = "save" THEN SAVE_DELAY_MS ELSE BLINK_MS
              a == Overflows(MsTicks(d), timer_interrupt_ticks, millis)
          IN  /\ millis' = a.m
              /\ timer_interrupt_ticks' = a.t
              /\ (millis < MaxMillis => millis' > millis)]_vars

\* the blink loop after its first full cycle, the time base still running
C13_Witness ==
    ThreeLow /\ cbi = "blink_on" /\ blink_i = 1 /\ millis < MaxMillis

\* C14 as stated: starting from tick counter 0, after 4 * k runs of the
\* timer-0 overflow handler millis has advanced by k.
C14_FourPerMilli == obs.ovf % 4 = 0 => millis = obs.ovf \div 4

\* the next foreground statement is an assignment, a test or a return,
\* not a busy-wait
ZeroTime ==
    \/ pc \in {"entry", "test", "write"}
    \/ pc = "body" /\ seq[seqno][ph].k = "walk"
    \/ pc = "dmcb" /\ cbi = "idle" /\ ~DmcbCond
    \/ cbi = "reset"

\* runs of the timer-0 handler since power-up
HandlerRuns == millis * (TICK_LIMIT + 1) + timer_interrupt_ticks

\* C15: millis never decreases; it changes only through runs of the timer-0
\* overflow handler, by at most 1 per run; the foreground's own statements
\* (register writes, loop tests, returns, the ladder's save and reset) leave
\* it as it is.
C15_MonotonicSingleWriter ==
    [][/\ millis' >= millis
       /\ HandlerRuns' >= HandlerRuns
       /\ millis' - millis <= HandlerRuns' - HandlerRuns
       /\ ZeroTime => millis' = millis]_vars

\* a sequence back at its loop test after the counter's low byte has
\* carried
C15_Witness ==
    millis > 256 /\ millis < MaxMillis /\ pc = "test" /\ obs.steps_cycle > 0

\* a step in which a timer-1 handler, or the timer-0 handler, has run
Timer1HandlerStep ==
    \/ TOV1 > 0 /\ TOV1' = 0
    \/ OCF1A > 0 /\ OCF1A' = 0
Timer0HandlerStep == obs'.ovf # obs.ovf

\* C16: a run of TIMER1_OVF_vect or TIMER1_COMPA_vect changes PB3 and
\* nothing else of the program's state; a run of TIMER0_OVF_vect changes the
\* tick counter and millis and nothing else; none writes a channel register,
\* the ring buffer or the settings.
C16_HandlerFrame ==
    [][/\ Timer1HandlerStep =>
             /\ reg' = reg
             /\ TCNT1' = TCNT1
             /\ millis' = millis
             /\ timer_interrupt_ticks' = timer_interrupt_ticks
             /\ micVars' = micVars
             /\ setVars' = setVars
       /\ Timer0HandlerStep =>
             /\ reg' = reg
             /\ <<TCNT1', PB3', TOV1', OCF1A'>> = <<TCNT1, PB3, TOV1, OCF1A>>
             /\ micVars' = micVars
             /\ setVars' = setVars]_vars

\* all three handlers have run: the pin set at full duty, millis advanced
C16_Witness ==
    reg["OCR1A"] = 255 /\ PB3 = 1 /\ obs.pwm_periods >= 2 /\ millis > 0

\* C17: when all 16 entries of the ring buffer hold the same value v in
\* 0..1023, get_mic_buffer_mad returns 0; so it does for the buffer that
\* init_mic_buffer leaves (all entries 512).
C17_ConstantBufferMadZero ==
    /\ get_mic_buffer_mad(InitMicBuffer) = 0
    /\ (obs.mad >= 0 /\ \A n \in 1 .. MIC_BUFFER_SIZE : mic_buffer[n] = mic_buffer[1])
          => obs.mad = 0

\* the estimator applied to a buffer of sixteen full-scale samples
C17_Witness ==
    obs.mad = 0 /\ \A n \in 1 .. MIC_BUFFER_SIZE : mic_buffer[n] = 1023

\* C18: for buffers with entries in 0..1023 get_mic_buffer_mad returns a
\* value in 0..512, and the noise-floor step yields 0 for a MAD of 40 or
\* less and MAD - 40, without wrap-around, above.
C18_MadRange ==
    obs.mad >= 0 =>
        /\ obs.mad \in 0 .. 512
        /\ NoiseFloor(obs.mad) \in 0 .. 512
        /\ NoiseFloor(obs.mad) <= obs.mad
        /\ obs.mad <= 40 => (NoiseFloor(obs.mad) = 0 /\ reg = AllRegs(0))
        /\ obs.mad > 40 => NoiseFloor(obs.mad) = obs.mad - 40

\* a buffer that is not constant and whose MAD is below the noise floor
C18_Witness ==
    obs.mad > 0 /\ obs.mad < 40 /\ reg = AllRegs(0)

\* C19: the brightness derived from a MAD value m is
\* 4 * min(63, max(0, m - 40)), a multiple of 4 in 0..252, and the same
\* value is written to all four channel registers.
C19_Brightness ==
    obs.mad >= 0 =>
        LET l == 4 * Min(63, Max(0, obs.mad - 40)) IN
        /\ reg = AllRegs(l)
        /\ leds = l
        /\ l % 4 = 0
        /\ l \in 0 .. 252

\* a MAD above the clamp: the brightness is 252
C19_Witness ==
    obs.mad > 40 + 63 + 1 /\ reg = AllRegs(252)

\* C20 as stated: in seq12, when an iteration writes a lower brightness
\* than the one before, the drop is at most 1 unit per millisecond elapsed
\* between the two writes.
C20_SlowDecay ==
    [][(seqno = 12 /\ pc = "body" /\ pc' = "poll") =>
          reg["OCR0A"] - reg'["OCR0A"] <= Max(0, millis' - obs.wr_millis)]_vars


\* ---------------------------------------------------------------------
\* C21: the write index of the ring buffer stays in 0..15; an iteration of
\* seq12 overwrites exactly the entry at the index with the sample it read,
\* leaves the other 15 alone and advances the index by one modulo 16; from
\* the 16th iteration on the buffer holds the 16 most recent samples.
SoundIteration == seqno = 12 /\ pc = "body" /\ pc' = "poll"

C21_RingStep ==
    SoundIteration =>
        /\ \E x \in 0 .. 1023 :
              /\ mic_buffer' = [mic_buffer EXCEPT ![mic_buffer_current + 1] = x]
              /\ obs'.recent[Len(obs'.recent)] = x
        /\ \A i \in 1 .. MIC_BUFFER_SIZE :
              i # mic_buffer_current + 1 => mic_buffer'[i] = mic_buffer[i]
        /\ mic_buffer_current' = (mic_buffer_current + 1) % 16

C21_RingHolds ==
    /\ mic_buffer_current \in 0 .. 15
    /\ DOMAIN mic_buffer = 1 .. 16
    /\ obs.mic_iters >= 16 =>
          /\ Len(obs.recent) = 16
          /\ \A i \in 0 .. 15 :
                mic_buffer[((mic_buffer_current + 15 - i) % 16) + 1]
                    = obs.recent[16 - i]

C21_RingBuffer == [][C21_RingStep]_vars /\ []C21_RingHolds

\* after the 17th iteration the first entry has been overwritten while the
\* second still holds the loud sample of the second iteration
C21_Witness ==
    /\ seqno = 12
    /\ obs.mic_iters = 17
    /\ mic_buffer_current = 1
    /\ obs.recent[1] = 1023
    /\ mic_buffer[2] = 1023
    /\ mic_buffer[1] = MIC_MIDSCALE


\* ---------------------------------------------------------------------
\* C22: a sequence begins by writing its starting value to all four channel
\* registers, 0 in every sequence but seq11, which writes 255; the writes
\* come before the first poll, the first delay and the first timeout test.
C22_EntryStep ==
    (pc = "entry" /\ pc' # "entry") =>
        /\ reg' = AllRegs(IF seqno = 11 THEN 255 ELSE 0)
        /\ millis' = millis
        /\ obs'.cbi_samples = <<>>
        /\ obs'.dly = 0
        /\ obs'.cycle_millis = -1

C22_BeforeEntry ==
    pc = "entry" =>
        /\ obs.cbi_samples = <<>>
        /\ obs.call = 0
        /\ obs.dly = 0
        /\ obs.cycle_millis = -1
        /\ millis = 0

C22_EntryWrites == [][C22_EntryStep]_vars /\ []C22_BeforeEntry

\* seq11 has just overwritten what was left in the registers
C22_Witness ==
    /\ seqno = 11
    /\ pc # "entry"
    /\ reg = AllRegs(255)
    /\ obs.cbi_samples = <<>>
    /\ obs.cycle_millis = -1
    /\ millis = 0


\* ---------------------------------------------------------------------
\* C26: in seq10 and seq11 a channel goes idle, moving away from its rest
\* value, at the extreme, moving back, idle.  In one loop iteration an
\* animating channel changes by exactly 1 and an idle one does not change;
\* brightness stays in 0..255, the direction in {-1, 0, 1}; a channel is
\* started only when it is idle, and an idle channel is at its rest value
\* (0 in seq10, 255 in seq11).
WalkRest == IF seqno = 10 THEN 0 ELSE 255
WalkAway == IF seqno = 10 THEN 1 ELSE -1
WalkIteration == seqno \in {10, 11} /\ pc = "body" /\ pc' # "body"

C26_WalkStep ==
    WalkIteration =>
      \A c \in 1 .. 4 :
        LET b == led[c]
            d == direction[c]
        IN  /\ d = 0 => /\ led'[c] = b
                         /\ direction'[c] \in {0, WalkAway}
            /\ d = WalkAway =>
                  /\ led'[c] = b + WalkAway
                  /\ direction'[c] =
                       (IF led'[c] = 255 - WalkRest THEN -WalkAway ELSE WalkAway)
            /\ d = -WalkAway =>
                  /\ led'[c] = b - WalkAway
                  /\ direction'[c] \in
                       (IF led'[c] = WalkRest THEN {0, WalkAway} ELSE {-WalkAway})

C26_WalkState ==
    (seqno \in {10, 11} /\ pc # "entry") =>
      \A c \in 1 .. 4 :
        /\ led[c] \in 0 .. 255
        /\ direction[c] \in {-1, 0, 1}
        /\ direction[c] = 0 => led[c] = WalkRest
        /\ direction[c] = WalkAway => led[c] # 255 - WalkRest
        /\ direction[c] = -WalkAway => led[c] # WalkRest
        /\ (cbi = "idle" /\ pc # "body") =>
              reg[<<"OCR0A", "OCR0B", "OCR1A", "OCR1B">>[c]] = led[c]

C26_Walk == [][C26_WalkStep]_vars /\ []C26_WalkState

\* seq11: one channel has faded to 0 and turned, another is idle at 255
C26_Witness ==
    /\ seqno = 11
    /\ \E c, e \in 1 .. 4 :
          /\ led[c] = 0 /\ direction[c] = 1
          /\ led[e] = 255 /\ direction[e] = 0


\* ---------------------------------------------------------------------
\* C28: one interval of the button line below threshold gives at most one
\* report: check_button_input returns 1 at most once, never both returns 1
\* and restarts, and whenever it returns 1 the last sample it took was at
\* or above the threshold.
C28_OneReport ==
    /\ obs.reports <= 1
    /\ obs.reports = 1 => (~wdt /\ ~obs.saved /\ ~InLongPress)
    /\ obs.cbi_ret = 1 =>
          /\ obs.reports = 1
          /\ Len(obs.cbi_samples) \in {2, 3}
          /\ obs.cbi_samples[Len(obs.cbi_samples)] >= BUTTON_THRESHOLD
          /\ \A i \in 1 .. Len(obs.cbi_samples) - 1 :
                obs.cbi_samples[i] < BUTTON_THRESHOLD

\* a press was reported inside a delay and a later poll of that delay
\* has returned 0
C28_Witness ==
    /\ obs.reports = 1
    /\ pc = "dmcb"
    /\ d_pressed = 1
    /\ obs.cbi_ret = 0
    /\ obs.press_len = 1000


\* ---------------------------------------------------------------------
\* C29: in the ramp sequences seq8 and seq9 (steps built from ++, -- and
\* += 2) two consecutive values of a channel register differ by at most the
\* step size, so brightness never wraps between 0 and 255, and every pass
\* of the outer loop ends with the registers at the value they had when it
\* began.
RampStep ==
    /\ seqno \in {8, 9}
    /\ pc # "entry"
    /\ cbi = "idle"
    /\ cbi' = "idle"

C29_Step ==
    RampStep =>
        \A x \in Regs :
            /\ reg'[x] - reg[x] <= 2
            /\ reg[x] - reg'[x] <= 2

C29_LoopCloses ==
    (seqno \in {8, 9} /\ pc = "test") =>
        reg = AllRegs(IF seqno = 8 THEN 59 ELSE 0)

C29_NoWrap == [][C29_Step]_vars /\ []C29_LoopCloses


\* ---------------------------------------------------------------------
\* C23: the settings byte survives the restart: whatever settings_start_seq
\* holds when the long-press path saves it is what load_settings yields at
\* the next start.
C23_LoadStep ==
    (main.pc = "init" /\ main'.pc = "head" /\ obs.last_s >= 0) =>
        settings_start_seq' = obs.last_s

C23_Saved ==
    /\ main.pc = "spin" => settings_start_seq_ee = obs.last_s
    /\ \A s \in StoredBytes :
          load_settings(save_settings(settings_start_seq_ee, s)) = s

C23_RoundTrip == [][C23_LoadStep]_vars /\ []C23_Saved

\* seq7(-1) was running at the long press; the restarted main has loaded 7
C23_Witness ==
    /\ main.pc = "head"
    /\ obs.restarts = 1
    /\ obs.last_s = 7
    /\ settings_start_seq = 7

\* ---------------------------------------------------------------------
\* C24: the stored settings byte is read once per start, in main before the
\* first sequence is called, and is written only on the long-press path,
\* which goes on to the restart; calls, returns and the demo loop leave it
\* as it is.
C24_StoreStep ==
    /\ settings_start_seq_ee' # settings_start_seq_ee =>
          (main.pc = "call" /\ main'.pc = "spin" /\ wdt')
    /\ obs'.loads > obs.loads =>
          (main.pc = "init" /\ obs.loads = 0 /\ obs.calls = 0)

C24_LoadedOnce ==
    /\ main.pc \in {"boot", "init"} => (obs.loads = 0 /\ obs.calls = 0)
    /\ main.pc \in {"head", "demo", "stay", "call", "spin"} => obs.loads = 1
    /\ obs.longs = 0 => settings_start_seq_ee \in StoredBytes
    /\ obs.longs > 0 => settings_start_seq_ee = obs.last_s

C24_StoreFrame == [][C24_StoreStep]_vars /\ []C24_LoadedOnce

\* restarted with 3 stored: seq3(-1) has returned and seq4(-1) runs, the
\* stored byte is still 3
C24_Witness ==
    /\ main.pc = "call"
    /\ obs.restarts = 1
    /\ obs.loads = 1
    /\ obs.calls = 2
    /\ seqno = 4
    /\ timeout = -1
    /\ settings_start_seq = 4
    /\ settings_start_seq_ee = 3

\* ---------------------------------------------------------------------
\* C25: reset() arms the watchdog and spins: nothing but the restart follows
\* it.  After the restart the watchdog is disabled before main runs, so each
\* long press causes exactly one restart and main reaches a sequence again.
C25_SpinStep ==
    main.pc = "spin" =>
        /\ main'.pc = "boot"
        /\ settings_start_seq_ee' = settings_start_seq_ee
        /\ reg' = reg

C25_OneRestart ==
    /\ main.pc = "spin" => wdt
    /\ main.pc \notin {"boot", "spin"} => ~wdt
    /\ obs.restarts = (IF main.pc = "spin" THEN obs.longs - 1 ELSE obs.longs)

C25_Restart ==
    /\ [][C25_SpinStep]_vars
    /\ []C25_OneRestart
    /\ (main.pc = "spin") ~> (main.pc = "call")

\* one long press, one restart, and a sequence runs with the watchdog off
C25_Witness ==
    /\ main.pc = "call"
    /\ obs.longs = 1
    /\ obs.restarts = 1
    /\ ~wdt

\* ---------------------------------------------------------------------
\* C27: the demo loop ends exactly when a demo sequence returns 'pressed';
\* the sequence main then runs without a timeout is seq1, whichever demo
\* pattern was running at the press.
C27_DemoReturn == main.pc = "call" /\ main.from = "demo" /\ main'.pc # "spin"
C27_CallAfterDemoPress == obs.demo_seq # 0 /\ main.pc # "call" /\ main'.pc = "call"

C27_PickerStep ==
    /\ C27_DemoReturn =>
          \/ main'.button_pressed = 1 /\ main'.pc = "stay" /\ obs'.demo_seq = seqno
          \/ main'.button_pressed = 0 /\ main'.pc = "demo" /\ obs'.demo_seq = 0
    /\ (main.pc = "demo" /\ main'.pc = "call") =>
          (main.button_pressed = 0 /\ timeout' = DEMO_TIMEOUT
             /\ seqno' \in 1 .. NUM_SEQ)
    /\ C27_CallAfterDemoPress => (timeout' < 0 /\ seqno' = 1)

C27_CommitsToFirst == [][C27_PickerStep]_vars

\* seq5 was the demo pattern at the press; seq1(-1) is what runs next
C27_Witness ==
    /\ main.pc = "call"
    /\ obs.demo_seq = 5
    /\ seqno = 1
    /\ timeout = -1

\* C27 as stated: after a press in the demo loop the next sequence run
\* without a timeout is the pattern that was running.
C27_CommitsToRunning ==
    [][C27_CallAfterDemoPress => (timeout' < 0 /\ seqno' = obs.demo_seq)]_vars

\* ---------------------------------------------------------------------
\* C30: whatever byte the EEPROM holds at power-up, 0 to 255, main
\* eventually calls a sequence.
C30_EventuallyRuns == <>(main.pc = "call")


\* ---------------------------------------------------------------------
\* C31: when the byte read at start-up is k in 1..12 the demo loop is
\* skipped and the first sequence called is seq k with the unbounded
\* timeout; when it is 0 the first call is a demo call.
C31_FirstCall == obs.calls = 0 /\ main.pc # "call" /\ main'.pc = "call"

C31_FirstCallStep ==
    C31_FirstCall =>
        /\ settings_start_seq_ee \in 1 .. 12 =>
              (seqno' = settings_start_seq_ee /\ timeout' = -1
                 /\ main.pc = "stay")
        /\ settings_start_seq_ee = 0 =>
              (seqno' \in 1 .. NUM_SEQ /\ timeout' = DEMO_TIMEOUT
                 /\ main.pc = "demo")

C31_NoDemoOnResume ==
    (obs.calls = 0 /\ main.pc = "demo") => settings_start_seq_ee = 0

C31_Resume == [][C31_FirstCallStep]_vars /\ []C31_NoDemoOnResume

\* powered up with 9 stored: the first and only call so far is seq9(-1)
C31_Witness ==
    /\ main.pc = "call"
    /\ obs.restarts = 0
    /\ obs.calls = 1
    /\ settings_start_seq_ee = 9
    /\ seqno = 9
    /\ timeout = -1

\* ---------------------------------------------------------------------
\* C32: the byte the long-press path stores is the number k of the
\* unbounded sequence that is running, and 0 when a demo sequence is
\* running.
C32_LongPressStep == main.pc = "call" /\ main'.pc = "spin"

C32_StoredStep ==
    C32_LongPressStep =>
        /\ timeout < 0 =>
              (seqno \in 1 .. 12 /\ settings_start_seq_ee' = seqno)
        /\ timeout >= 0 =>
              (timeout = DEMO_TIMEOUT /\ settings_start_seq_ee' = 0)

C32_StoresRunning == [][C32_StoredStep]_vars

\* a second long press, this one during a demo call: 0 is stored
C32_Witness ==
    /\ main.pc = "spin"
    /\ obs.longs = 2
    /\ timeout = DEMO_TIMEOUT
    /\ seqno = 6
    /\ settings_start_seq_ee = 0

\* ---------------------------------------------------------------------
\* C33: in the chain a tap ends seq k(-1) and the next call is seq k+1(-1),
\* in the order seq1 .. seq12 with none skipped or repeated; a tap during
\* seq12 leads back to the demo loop, whose calls are of seq1 .. seq11 with
\* a timeout of 8000 ms.
C33_ChainStep ==
    /\ (main.pc = "call" /\ timeout < 0 /\ main'.pc \notin {"call", "spin"}) =>
          IF seqno < 12
          THEN main'.pc = "stay" /\ main'.k = seqno + 1
          ELSE main'.pc = "head" /\ main'.settings_start_seq_applied = 1
    /\ (main.pc = "stay" /\ main'.pc = "call") =>
          /\ timeout' = -1
          /\ (obs.calls > 0 /\ timeout < 0) => seqno' = seqno + 1
          /\ (obs.calls > 0 /\ timeout >= 0) => seqno' = 1
    /\ (main.pc = "stay" /\ obs.calls > 0) => main'.pc \in {"call", "boot"}
    /\ (main.pc = "head" /\ obs.calls > 0) => main'.pc \in {"demo", "boot"}
    /\ (main.pc = "demo" /\ main'.pc = "call") =>
          (seqno' \in 1 .. 11 /\ timeout' = 8000)

C33_StayOrder == [][C33_ChainStep]_vars

\* a tap during seq12(-1) has brought main back to the demo loop
C33_Witness ==
    /\ main.pc = "demo"
    /\ seqno = 12
    /\ timeout = -1
    /\ obs.calls = 2


\* ---------------------------------------------------------------------
\* C35: after every run of the timer-0 overflow handler the tick counter is
\* in 0..4; millis is incremented in exactly the runs that reset the tick
\* counter to 0, which are every fifth run, and in no other.
C35_HandlerStep ==
    Timer0HandlerStep =>
        /\ timer_interrupt_ticks' \in 0 .. 4
        /\ \/ /\ timer_interrupt_ticks = 4
              /\ timer_interrupt_ticks' = 0
              /\ millis' = millis + 1
           \/ /\ timer_interrupt_ticks < 4
              /\ timer_interrupt_ticks' = timer_interrupt_ticks + 1
              /\ millis' = millis

C35_FifthRun ==
    /\ timer_interrupt_ticks \in 0 .. 4
    /\ obs.ovf = 5 * millis + timer_interrupt_ticks

C35_TickCounter == [][C35_HandlerStep]_vars /\ []C35_FifthRun

\* ten runs of the handler: the tick counter has been reset twice
C35_Witness ==
    /\ obs.ovf = 10
    /\ millis = 2
    /\ timer_interrupt_ticks = 0


\* ---------------------------------------------------------------------
\* C36: for buffer entries in 0..1023 get_mic_buffer_mad returns
\* floor(S / 16), S being the sum over the 16 entries of
\* |x_i - floor(sum(x) / 16)| in unbounded arithmetic: the 16-bit sums do
\* not overflow, and the unsigned subtraction followed by abs is the true
\* absolute difference below the mean as well as above it.
RECURSIVE C36_TrueSum(_, _)
C36_TrueSum(b, n) == IF n = 0 THEN 0 ELSE C36_TrueSum(b, n - 1) + b[n]

RECURSIVE C36_TrueDev(_, _, _)
C36_TrueDev(b, mean, n) ==
    IF n = 0 THEN 0
    ELSE C36_TrueDev(b, mean, n - 1)
           + (IF b[n] >= mean THEN b[n] - mean ELSE mean - b[n])

C36_TrueMean(b) == C36_TrueSum(b, MIC_BUFFER_SIZE) \div MIC_BUFFER_SIZE

C36_MadExact ==
    obs.mad >= 0 =>
        /\ \A n \in 1 .. MIC_BUFFER_SIZE : mic_buffer[n] \in 0 .. 1023
        /\ C36_TrueSum(mic_buffer, MIC_BUFFER_SIZE) < 65536
        /\ C36_TrueDev(mic_buffer, C36_TrueMean(mic_buffer), MIC_BUFFER_SIZE) < 65536
        /\ obs.mad =
             C36_TrueDev(mic_buffer, C36_TrueMean(mic_buffer), MIC_BUFFER_SIZE)
                 \div MIC_BUFFER_SIZE

\* eight entries at 0, below the mean of 511, and eight at 1023, above it
C36_Witness ==
    /\ mic_buffer[1] = 0
    /\ mic_buffer[8] = 0
    /\ mic_buffer[9] = 1023
    /\ mic_buffer[16] = 1023
    /\ obs.mad = 511


\* ---------------------------------------------------------------------
\* C34: delay_millis_check_button(d) returns only once millis has reached
\* start_time + d; it returns 1 exactly if one of its polls reported
\* pressed, and after such a poll it goes on waiting; it terminates while
\* the time base runs, unless a poll takes the long-press path and the
\* device restarts.
C34_DelayReturns == pc = "dmcb" /\ (pc' # "dmcb" \/ ph' # ph)

C34_ReturnStep ==
    C34_DelayReturns =>
        /\ millis >= d_start + seq[seqno][ph].d
        /\ millis' = millis
        /\ d_pressed = 1 <=> obs.reports >= 1
        /\ (pc' = "done" /\ ret' = 1) <=> d_pressed = 1

C34_Waiting ==
    pc = "dmcb" =>
        /\ d_pressed \in {0, 1}
        /\ d_pressed = 1 <=> obs.reports >= 1
        /\ ret = -1

====
